---- MODULE Spec2Model ----
(***************************************************************************)
(* A model of the audio sample workstation: the studio workspace           *)
(* (src/components/studio-workspace.tsx: track list, composition playback  *)
(* scheduling, export) and the WAV encoder (audioBufferToWav).             *)
(*                                                                         *)
(* Time.  Every time value (seconds in the source) is an integer number of *)
(* ticks, TicksPerSecond ticks to the second, and every time the model     *)
(* feeds in is a multiple of 2 ticks.  Pitch values are whole octaves, so  *)
(* the playback rate 2^(k/12) is a power of two and every product and      *)
(* quotient the source computes on these values is exact, in the model as  *)
(* in IEEE double arithmetic.                                              *)
(*                                                                         *)
(* React.  A handler called from the UI reads the state of the latest      *)
(* render.  A callback handed to setTimeout or setInterval keeps the       *)
(* values of the render that created it (its closure); refs                *)
(* (audioSources, timeUpdateInterval, startTimeRef) are shared.            *)
(***************************************************************************)
EXTENDS Integers, Sequences, FiniteSets, TLC

\* ------------------------------------------------------------------ bounds
MaxEdits == 4
MaxPlaybackEdits == 2
MaxClock == 2
MaxDeviceSteps == 1
MaxTimers == 1
MaxWavChannels == 2
MaxWavFrames == 2
MaxCursorEdits == 3
MaxEffectEdits == 4
MantissaBits == 6
MaxPageSources == 2
MaxPageTimers == 1
MaxExtracted == 2
MaxPageOps == 5
MaxDragListeners == 2
MaxDialogEdits == 3
MaxPreviewEdits == 2
MaxPreviews == 2
MaxLibraryEdits == 3
MaxZoomOps == 3
MaxColumnFrames == 3
MaxSelectionSevenths == 28
MaxUserSteps == 1

\* ------------------------------------------------------------ input values
TicksPerSecond == 2 * 2 * 2
ContextSampleRate == 441 * 100
\* The sample libraries the workspace is mounted with (the samples prop).
Libraries ==
  {<<>>,
   <<[id |-> "s1", duration |-> TicksPerSecond]>>,
   <<[id |-> "s1", duration |-> TicksPerSecond],
     [id |-> "s2", duration |-> 2 * TicksPerSecond]>>}
\* Values the effects tab hands to updateTrack.
StartTimes == {0, 20}
RepetitionValues == {1, 3}
PitchValues == {0, 12}
\* The cursor position a timeline click yields, before clamping.
SeekTimes == {12}
ReverbValues == {0, 50}
DelayTimeValues == {0, 50}
DelayFeedbackValues == {0, 50, 90}
\* How far the audio device clock moves between two events.
DeviceStep == 2 * 2
\* Export-dialog quality slider, in hundredths.
QualityValues == {50, 100}
\* audioBufferToWav's arguments: sample values in quarters (SampleDen to the
\* unit), some beyond [-1, 1]; sample rates; qualities in hundredths.
SampleDen == 2 * 2
SampleValues == {-6, -4, -3, -1, 0, 1, 2, 3, 4, 6}
WavSampleRates == {ContextSampleRate, 480 * 100}
WavQualities == {20, 70, 80, 100}

VARIABLES
  samples,              \* the samples prop: sequence of [id, duration]
  tracks,               \* useState tracks: sequence of CompositionTrack
  selectedSampleId,     \* useState selectedSampleId ("null" when none)
  compositionDuration,  \* useState compositionDuration
  currentTime,          \* useState currentTime (the cursor)
  isPlaying,            \* useState isPlaying
  audioSources,         \* ref: the sources pushed by the last schedule
  timeUpdateInterval,   \* ref: <<>> (null) or <<handle>>
  startTimeRef,         \* ref: device time at which playback began
  clock,                \* the last value Date.now() returned
  edits,                \* how many times the track list has been changed
  deviceTime,           \* audioContext.currentTime
  started,              \* device: sources started and not stopped
  intervals,            \* event loop: registered setInterval callbacks
  timers,               \* event loop: pending setTimeout callbacks, in order
  exportResult,         \* <<>>, or <<what exportComposition rendered>> while
                        \* the export dialog that ran it is still open
  toast,                \* the title of the last toast shown ("" when none)
  wav,                  \* audioBufferToWav: its arguments, loop position, output
  page,                 \* page.tsx (AudioSampler): state, refs, device, event loop
  waveform,             \* AudioWaveform: its state
  fnCall,               \* one call of a pure function: arguments, position, result
  editingTrack,         \* useState editingTrack: <<>> (null) or <<draft track>>
  currentTrack,         \* store currentTrack: <<>> (null) or <<draft track>>
  drag,                 \* track dragging: its state and the document listeners
  audioContext,         \* the audioContext prop: whether the ref holds a context
  impulseResponse,      \* useState impulseResponse: FALSE (null) or TRUE (the buffer)
  onended,              \* device: the preview sources whose ended event is to come
  polled                \* history: the cursor is the time a poll tick published,
                        \* and no playback control was used since

vars ==
  <<samples, tracks, selectedSampleId, compositionDuration, currentTime,
    isPlaying, audioSources, timeUpdateInterval, startTimeRef, clock, edits,
    deviceTime, started, intervals, timers, exportResult, toast, wav, page,
    waveform, fnCall, editingTrack, currentTrack, drag, audioContext,
    impulseResponse, onended, polled>>

pageVars == <<page, waveform, fnCall>>
dialogVars == <<editingTrack, currentTrack, drag>>
mountVars == <<audioContext, impulseResponse, polled>>
libraryVars == <<samples, selectedSampleId>>
studioVars ==
  <<samples, tracks, selectedSampleId, compositionDuration, currentTime,
    isPlaying, audioSources, timeUpdateInterval, startTimeRef, clock, edits,
    deviceTime, started, intervals, timers, exportResult, toast,
    editingTrack, currentTrack, drag, audioContext, impulseResponse,
    onended, polled>>
trackVars == <<tracks, compositionDuration, clock, edits>>
playbackVars ==
  <<isPlaying, audioSources, timeUpdateInterval, startTimeRef, started,
    intervals>>

\* ----------------------------------------------------------------- helpers
Range(s) == {s[i] : i \in 1..Len(s)}

Max(a, b) == IF a >= b THEN a ELSE b

Min(a, b) == IF a <= b THEN a ELSE b

RECURSIVE Concat(_)
Concat(ss) == IF ss = <<>> THEN <<>> ELSE Head(ss) \o Concat(Tail(ss))

\* Math.ceil(a / b) for b > 0.
CeilDiv(a, b) == -((-a) \div b)

\* samples.find((s) => s.id === id): the first match, <<>> when none.
FindSample(ss, id) ==
  LET hits == SelectSeq(ss, LAMBDA s : s.id = id)
  IN IF hits = <<>> THEN <<>> ELSE <<Head(hits)>>

\* ------------------------------------------------------- pitch and duration
RECURSIVE Pow2(_)
Pow2(n) == IF n = 0 THEN 1 ELSE 2 * Pow2(n - 1)

RECURSIVE Gcd(_, _)
Gcd(a, b) == IF b = 0 THEN a ELSE Gcd(b, a % b)

Abs(a) == IF a < 0 THEN -a ELSE a

\* Math.pow(2, p / q) for a fraction p / q in lowest terms, q > 0, as
\* <<numerator, denominator, index>>: the positive index-th root of
\* numerator / denominator.  With index 1 it is the number itself.
MathPow2(p, q) == IF p >= 0 THEN <<Pow2(p), 1, q>> ELSE <<1, Pow2(-p), q>>

\* Mutant: the sign of the exponent lost.
SemitonesToPlaybackRate_Inverted(semitones) ==
  MathPow2((-semitones) \div Gcd(Abs(semitones), 12),
           12 \div Gcd(Abs(semitones), 12))

\* semitonesToPlaybackRate: Math.pow(2, semitones / 12).
SemitonesToPlaybackRate(semitones) ==
  MathPow2(semitones \div Gcd(Abs(semitones), 12),
           12 \div Gcd(Abs(semitones), 12))

\* x / rate and x * rate, for a rate of whole octaves (index 1).
DivRate(x, rate) == (x * rate[2]) \div rate[1]

MulRate(x, rate) == (x * rate[1]) \div rate[2]

\* createTrack: the default track for a sample, its id read from the clock.
CreateTrack(sampleId, t) ==
  [id |-> t, sampleId |-> sampleId, startTime |-> 0, repetitions |-> 1,
   volume |-> 80, pitchSemitones |-> 0, reverbAmount |-> 0, delayTime |-> 0,
   delayFeedback |-> 0]

\* updateCompositionDuration: the forEach fold over the tracks, maxEndTime
\* starting at 0, a track whose sample is not found contributing nothing.
RECURSIVE MaxEndTime(_, _, _)
MaxEndTime(updatedTracks, ss, maxEndTime) ==
  IF updatedTracks = <<>> THEN maxEndTime
  ELSE LET track == Head(updatedTracks)
           sample == FindSample(ss, track.sampleId)
       IN IF sample = <<>> THEN MaxEndTime(Tail(updatedTracks), ss, maxEndTime)
          ELSE LET playbackRate == SemitonesToPlaybackRate(track.pitchSemitones)
                   adjustedDuration == DivRate(sample[1].duration, playbackRate)
                   trackEndTime ==
                     track.startTime + adjustedDuration * track.repetitions
               IN MaxEndTime(Tail(updatedTracks), ss,
                             Max(maxEndTime, trackEndTime))

\* Mutant: the pitch adjustment of the duration forgotten.
UpdateCompositionDuration_NoPitch(updatedTracks, ss) ==
  MaxEndTime([k \in 1..Len(updatedTracks) |->
                [updatedTracks[k] EXCEPT !.pitchSemitones = 0]], ss, 0)

\* Mutant: the repetitions divide the duration instead of multiplying it.
UpdateCompositionDuration_DividedByRepetitions(updatedTracks, ss) ==
  LET ends ==
        {0} \cup
        {updatedTracks[k].startTime
           + DivRate(FindSample(ss, updatedTracks[k].sampleId)[1].duration,
                     SemitonesToPlaybackRate(updatedTracks[k].pitchSemitones))
               \div updatedTracks[k].repetitions :
           k \in {j \in 1..Len(updatedTracks) :
                    FindSample(ss, updatedTracks[j].sampleId) # <<>>}}
  IN CHOOSE m \in ends : \A e \in ends : e <= m

UpdateCompositionDuration(updatedTracks, ss) == MaxEndTime(updatedTracks, ss, 0)

\* ---------------------------------------------------------- number values
\* A fraction <<numerator, denominator>> in lowest terms, denominator > 0.
Rat(n, d) ==
  LET g == Gcd(Abs(n), Abs(d))
  IN IF d < 0 THEN <<(0 - n) \div g, (0 - d) \div g>> ELSE <<n \div g, d \div g>>

RatAdd(a, b) == Rat(a[1] * b[2] + b[1] * a[2], a[2] * b[2])

RatSub(a, b) == Rat(a[1] * b[2] - b[1] * a[2], a[2] * b[2])

RatMul(a, b) == Rat(a[1] * b[1], a[2] * b[2])

RatDiv(a, b) == Rat(a[1] * b[2], a[2] * b[1])

RatLeq(a, b) == a[1] * b[2] <= b[1] * a[2]

RatAbs(a) == <<Abs(a[1]), a[2]>>

\* The exponent e with 2^(MantissaBits-1) <= (n/d) / 2^e < 2^MantissaBits.
RECURSIVE FloatExponent(_, _)
FloatExponent(n, d) ==
  IF n >= Pow2(MantissaBits) * d THEN FloatExponent(n, 2 * d) + 1
  ELSE IF n < Pow2(MantissaBits - 1) * d THEN FloatExponent(2 * n, d) - 1
  ELSE 0

\* A JavaScript number is a binary floating-point value: the result of an
\* operation is the nearest value with a significand of MantissaBits bits,
\* a tie going to the even significand.  The exponent range is not limited.
FloatRound(q) ==
  IF q[1] = 0 THEN q
  ELSE LET n == Abs(q[1])
           e == FloatExponent(n, q[2])
           num == IF e < 0 THEN n * Pow2(0 - e) ELSE n
           den == IF e < 0 THEN q[2] ELSE q[2] * Pow2(e)
           m == num \div den
           r == num - m * den
           significand ==
             IF 2 * r > den \/ (2 * r = den /\ m % 2 = 1) THEN m + 1 ELSE m
           magnitude ==
             IF e < 0 THEN Rat(significand, Pow2(0 - e))
             ELSE Rat(significand * Pow2(e), 1)
       IN IF q[1] < 0 THEN <<0 - magnitude[1], magnitude[2]>> ELSE magnitude

\* The operators +, -, * and / on numbers, Math.max and Math.min.
NumAdd(a, b) == FloatRound(RatAdd(a, b))

NumSub(a, b) == FloatRound(RatSub(a, b))

NumMul(a, b) == FloatRound(RatMul(a, b))

NumDiv(a, b) == FloatRound(RatDiv(a, b))

MathMax(a, b) == IF RatLeq(b, a) THEN a ELSE b

MathMin(a, b) == IF RatLeq(a, b) THEN a ELSE b

\* -------------------------------------------------------- waveform mapping
\* The visible section of the waveform: what xToTime and timeToX compute
\* from the buffer's duration, zoomLevel and zoomCenter.
VisibleDuration(duration, zoomLevel) == NumDiv(duration, zoomLevel)

VisibleStart(duration, zoomLevel, zoomCenter) ==
  MathMax(<<0, 1>>,
          NumSub(NumMul(zoomCenter, duration),
                 NumDiv(VisibleDuration(duration, zoomLevel), <<2, 1>>)))

VisibleEnd(duration, zoomLevel, zoomCenter) ==
  MathMin(duration,
          NumAdd(VisibleStart(duration, zoomLevel, zoomCenter),
                 VisibleDuration(duration, zoomLevel)))

\* xToTime; audioBuffer is <<>> (null) or <<duration>>.
XToTime(x, canvasWidth, audioBuffer, zoomLevel, zoomCenter) ==
  IF audioBuffer = <<>> THEN <<0, 1>>
  ELSE LET startTime == VisibleStart(audioBuffer[1], zoomLevel, zoomCenter)
           endTime == VisibleEnd(audioBuffer[1], zoomLevel, zoomCenter)
       IN NumAdd(startTime,
                 NumMul(NumDiv(x, canvasWidth), NumSub(endTime, startTime)))

\* Mutant: the position as a fraction of the whole buffer.
TimeToX_WholeBuffer(time, canvasWidth, audioBuffer, zoomLevel, zoomCenter) ==
  IF audioBuffer = <<>> THEN <<0, 1>>
  ELSE NumMul(NumDiv(time, audioBuffer[1]), canvasWidth)

\* timeToX.
TimeToX(time, canvasWidth, audioBuffer, zoomLevel, zoomCenter) ==
  IF audioBuffer = <<>> THEN <<0, 1>>
  ELSE LET startTime == VisibleStart(audioBuffer[1], zoomLevel, zoomCenter)
           endTime == VisibleEnd(audioBuffer[1], zoomLevel, zoomCenter)
       IN NumMul(NumDiv(NumSub(time, startTime), NumSub(endTime, startTime)),
                 canvasWidth)

\* ------------------------------------------------------------ effect graph
\* The mount effect that creates the impulse response of the reverb: it
\* returns at once while the ref holds no context, and has no dependency that
\* would run it again.
ImpulseResponse(audioContextCurrent) == audioContextCurrent

HasReverb(track, impulse) == track.reverbAmount > 0 /\ impulse

\* Mutant: a delay is built as soon as there is feedback.
HasDelay_OrFeedback(track) == track.delayTime > 0 \/ track.delayFeedback > 0

HasDelay(track) == track.delayTime > 0

\* The nodes created for one source with the value each is given (gains and
\* the delay time in hundredths).
EffectValues(track, impulse) ==
  {<<"trackGain", track.volume>>}
    \cup (IF HasReverb(track, impulse)
          THEN {<<"reverbNode", 0>>, <<"dryGain", 100 - track.reverbAmount>>,
                <<"wetGain", track.reverbAmount>>}
          ELSE {})
    \cup (IF HasDelay(track)
          THEN {<<"delayNode", track.delayTime>>,
                <<"delayFeedbackGain", track.delayFeedback>>,
                <<"delayDryGain", 100>>, <<"delayWetGain", 80>>}
          ELSE {})
    \cup (IF HasReverb(track, impulse) /\ HasDelay(track)
          THEN {<<"finalGain", 100>>}
          ELSE {})

\* The connections after the delay stage.
DelayStage(track) ==
  IF HasDelay(track)
  THEN {<<"source", "delayDryGain">>, <<"source", "delayNode">>,
        <<"delayNode", "delayFeedbackGain">>,
        <<"delayFeedbackGain", "delayNode">>,
        <<"delayNode", "delayWetGain">>,
        <<"delayDryGain", "trackGain">>, <<"delayWetGain", "trackGain">>}
  ELSE {<<"source", "trackGain">>}

\* The connections after the reverb stage: from the source to gainNode, the
\* master gain.
ReverbStage(track, impulse) ==
  IF HasReverb(track, impulse)
  THEN IF ~HasDelay(track)
       THEN (DelayStage(track) \ {<<"source", "trackGain">>})
              \cup {<<"source", "dryGain">>, <<"source", "reverbNode">>,
                    <<"dryGain", "trackGain">>, <<"reverbNode", "wetGain">>,
                    <<"wetGain", "trackGain">>, <<"trackGain", "gainNode">>}
       ELSE {e \in DelayStage(track) : e[1] # "trackGain"}
              \cup {<<"trackGain", "dryGain">>, <<"trackGain", "reverbNode">>,
                    <<"dryGain", "finalGain">>, <<"reverbNode", "wetGain">>,
                    <<"wetGain", "finalGain">>, <<"finalGain", "gainNode">>}
  ELSE DelayStage(track) \cup {<<"trackGain", "gainNode">>}

\* Mutant: the source is left connected to trackGain when the reverb splits
\* it.
WiringCalls_NoDisconnect(track, impulse) ==
  <<<<"connect", "source", "trackGain">>, <<"connect", "source", "dryGain">>,
    <<"connect", "source", "reverbNode">>, <<"connect", "dryGain", "trackGain">>,
    <<"connect", "reverbNode", "wetGain">>, <<"connect", "wetGain", "trackGain">>,
    <<"connect", "trackGain", "gainNode">>>>

\* The connect and disconnect calls made for one source, in order;
\* <<"disconnect", node, "">> is disconnect() without an argument.
WiringCalls(track, impulse) ==
  (IF HasDelay(track)
   THEN <<<<"connect", "source", "delayDryGain">>,
          <<"connect", "source", "delayNode">>,
          <<"connect", "delayNode", "delayFeedbackGain">>,
          <<"connect", "delayFeedbackGain", "delayNode">>,
          <<"connect", "delayNode", "delayWetGain">>,
          <<"connect", "delayDryGain", "trackGain">>,
          <<"connect", "delayWetGain", "trackGain">>>>
   ELSE <<<<"connect", "source", "trackGain">>>>)
  \o (IF HasReverb(track, impulse)
      THEN IF ~HasDelay(track)
           THEN <<<<"disconnect", "source", "trackGain">>,
                  <<"connect", "source", "dryGain">>,
                  <<"connect", "source", "reverbNode">>,
                  <<"connect", "dryGain", "trackGain">>,
                  <<"connect", "reverbNode", "wetGain">>,
                  <<"connect", "wetGain", "trackGain">>,
                  <<"connect", "trackGain", "gainNode">>>>
           ELSE <<<<"disconnect", "trackGain", "">>,
                  <<"connect", "trackGain", "dryGain">>,
                  <<"connect", "trackGain", "reverbNode">>,
                  <<"connect", "dryGain", "finalGain">>,
                  <<"connect", "reverbNode", "wetGain">>,
                  <<"connect", "wetGain", "finalGain">>,
                  <<"connect", "finalGain", "gainNode">>>>
      ELSE <<<<"connect", "trackGain", "gainNode">>>>)

\* The connections a sequence of calls leaves, one entry for every connect
\* call that no later disconnect has undone.
RECURSIVE Wired(_, _)
Wired(calls, wires) ==
  IF calls = <<>> THEN wires
  ELSE LET call == Head(calls)
       IN Wired(Tail(calls),
                IF call[1] = "connect" THEN Append(wires, <<call[2], call[3]>>)
                ELSE SelectSeq(wires,
                               LAMBDA w : ~(w[1] = call[2]
                                              /\ call[3] \in {"", w[2]})))

\* The signal graph playComposition builds for one source.
EffectGraph(track, impulse) ==
  [values |-> EffectValues(track, impulse),
   connections |-> ReverbStage(track, impulse),
   wiring |-> Wired(WiringCalls(track, impulse), <<>>)]

\* ------------------------------------------------------------- scheduling
\* One emitted source: the schedule (call) it belongs to, the position of its
\* track in the track list, the repetition, the device time handed to
\* source.start, the offset into the sample, the playback rate and gain, the
\* length of the buffer it plays, and the graph that takes it to the output.
Source(call, t, track, sample, rep, when, offset) ==
  [call |-> call, track |-> t, rep |-> rep, when |-> when, offset |-> offset,
   buffer |-> sample.duration,
   graph |-> EffectGraph(track, impulseResponse),
   rate |-> SemitonesToPlaybackRate(track.pitchSemitones),
   gain |-> track.volume]

\* Mutant: the cursor is not taken off the repetition's start time.
ScheduleAhead_NoCursor(call, t, track, sample, playbackStartTime, startTime) ==
  LET playbackRate == SemitonesToPlaybackRate(track.pitchSemitones)
  IN [k \in 1..track.repetitions |->
        Source(call, t, track, sample, k - 1,
               startTime + track.startTime
                 + (k - 1) * DivRate(sample.duration, playbackRate), 0)]

\* The branch for a track that starts after the cursor: every repetition from
\* the beginning of the sample, started only if its time is not before
\* startTime.
ScheduleAhead(call, t, track, sample, playbackStartTime, startTime) ==
  LET playbackRate == SemitonesToPlaybackRate(track.pitchSemitones)
      all == [k \in 1..track.repetitions |->
                LET i == k - 1
                    trackStartTime ==
                      track.startTime + i * DivRate(sample.duration, playbackRate)
                    scheduledStartTime ==
                      startTime + (trackStartTime - playbackStartTime)
                IN Source(call, t, track, sample, i, scheduledStartTime, 0)]
  IN SelectSeq(all, LAMBDA s : s.when >= startTime)

\* The start time of the k-th repetition after the one the cursor is in, in
\* the branch for a track that starts at or before the cursor.
NextRepStartTime(repetitionStartTime, k, sampleDuration, offsetInSample, playbackRate) ==
  repetitionStartTime + k * sampleDuration + DivRate(offsetInSample, playbackRate)

\* Mutant: every repetition is started, also the ones that are over.
ScheduleBehind_FromFirst(call, t, track, sample, playbackStartTime, startTime) ==
  [k \in 1..track.repetitions |->
     Source(call, t, track, sample, k - 1, startTime, 0)]

\* Mutant: every repetition that is not over is started at its own start
\* time, the straddled one too.
ScheduleBehind_AtRepetitionStart(call, t, track, sample, playbackStartTime, startTime) ==
  LET playbackRate == SemitonesToPlaybackRate(track.pitchSemitones)
      sampleDuration == DivRate(sample.duration, playbackRate)
      all == [k \in 1..track.repetitions |->
                Source(call, t, track, sample, k - 1,
                       startTime + (track.startTime + (k - 1) * sampleDuration
                                      - playbackStartTime), 0)]
  IN SelectSeq(all, LAMBDA s : s.when + sampleDuration > startTime)

\* The branch for a track that starts at or before the cursor.
ScheduleBehind(call, t, track, sample, playbackStartTime, startTime) ==
  LET playbackRate == SemitonesToPlaybackRate(track.pitchSemitones)
      sampleDuration == DivRate(sample.duration, playbackRate)
      trackEndTime == track.startTime + sampleDuration * track.repetitions
      repetitionIndex == (playbackStartTime - track.startTime) \div sampleDuration
      repetitionStartTime == track.startTime + repetitionIndex * sampleDuration
      offsetInSample ==
        MulRate(playbackStartTime - repetitionStartTime, playbackRate)
  IN IF trackEndTime > playbackStartTime /\ repetitionIndex < track.repetitions
     THEN [k \in 1..(track.repetitions - repetitionIndex) |->
             LET i == repetitionIndex + k - 1
                 nextRepStartTime ==
                   NextRepStartTime(repetitionStartTime, i - repetitionIndex,
                                    sampleDuration, offsetInSample, playbackRate)
             IN IF i = repetitionIndex
                THEN Source(call, t, track, sample, i, startTime, offsetInSample)
                ELSE Source(call, t, track, sample, i,
                            startTime + (nextRepStartTime - playbackStartTime), 0)]
     ELSE <<>>

\* Mutant: a track whose sample is not found plays the first sample of the
\* library instead of being skipped.
ScheduleTrack_FirstSample(call, t, trks, ss, playbackStartTime, startTime) ==
  LET track == trks[t]
      found == FindSample(ss, track.sampleId)
      sample == IF found = <<>> /\ ss # <<>> THEN <<ss[1]>> ELSE found
  IN IF sample = <<>> THEN <<>>
     ELSE IF track.startTime > playbackStartTime
          THEN ScheduleAhead(call, t, track, sample[1], playbackStartTime,
                             startTime)
          ELSE ScheduleBehind(call, t, track, sample[1], playbackStartTime,
                              startTime)

\* The body of tracks.forEach in playComposition, for the track at position t.
ScheduleTrack(call, t, trks, ss, playbackStartTime, startTime) ==
  LET track == trks[t]
      sample == FindSample(ss, track.sampleId)
  IN IF sample = <<>> THEN <<>>
     ELSE IF track.startTime > playbackStartTime
          THEN ScheduleAhead(call, t, track, sample[1], playbackStartTime,
                             startTime)
          ELSE ScheduleBehind(call, t, track, sample[1], playbackStartTime,
                              startTime)

\* Every source playComposition starts and pushes, in order.
Schedule(call, trks, ss, playbackStartTime, startTime) ==
  Concat([t \in 1..Len(trks) |->
            ScheduleTrack(call, t, trks, ss, playbackStartTime, startTime)])

\* ------------------------------------------------------------ WAV encoding
\* Mutant: 24 bits only above the threshold.
BitsPerSample_Strict(quality) == IF quality > 80 THEN 24 ELSE 16

\* audioBufferToWav: bit depth from quality (in hundredths).
BitsPerSample(quality) == IF quality >= 80 THEN 24 ELSE 16

BytesPerSample(quality) == BitsPerSample(quality) \div 8

\* DataView.setUint16 and setUint32: the value modulo the field's width
\* (2^32 written as two 16-bit halves).
Uint16(x) == x % 65536

Uint32(x) == (x % 65536) + 65536 * ((x \div 65536) % 65536)

\* Mutant: the channel count left out of the size.
WavByteLength_Mono(length, numChannels, quality) ==
  44 + length * BytesPerSample(quality)

\* The byte length of the ArrayBuffer audioBufferToWav allocates.
WavByteLength(length, numChannels, quality) ==
  44 + length * numChannels * BytesPerSample(quality)

\* The header fields audioBufferToWav writes, by byte offset.
WavHeader(length, numChannels, sampleRate, quality) ==
  LET bitsPerSample == BitsPerSample(quality)
      bytesPerSample == BytesPerSample(quality)
  IN [riff |-> "RIFF",
      riffSize |-> Uint32(36 + length * numChannels * bytesPerSample),
      wave |-> "WAVE",
      fmt |-> "fmt ",
      fmtSize |-> Uint32(16),
      audioFormat |-> Uint16(1),
      numChannels |-> Uint16(numChannels),
      sampleRate |-> Uint32(sampleRate),
      byteRate |-> Uint32(sampleRate * numChannels * bytesPerSample),
      blockAlign |-> Uint16(numChannels * bytesPerSample),
      bitsPerSample |-> Uint16(bitsPerSample),
      data |-> "data",
      dataSize |-> Uint32(length * numChannels * bytesPerSample)]

\* Math.floor(n / d) and truncation toward zero of n / d, for d > 0.
Floor(n, d) == n \div d

Trunc(n, d) == IF n >= 0 THEN n \div d ELSE -((-n) \div d)

\* Math.max(-1, Math.min(1, sample)) on a sample of n / SampleDen.
Clamp(n) == Max(-SampleDen, Min(SampleDen, n))

\* view.setInt16(offset, n / d, true): the number is truncated to an integer,
\* taken modulo 2^16 and stored low byte first.
SetInt16(n, d) ==
  LET int == Trunc(n, d)
      u == int % 65536
  IN <<u % 256, u \div 256>>

\* view.setUint8(offset, x & 0xff) for an int32 x.
LowByte(x) == x % 256

\* writeSample: the bytes written for a sample of n / SampleDen.
WriteSample(n, bitsPerSample) ==
  LET sample == Clamp(n)
  IN IF bitsPerSample = 16
     THEN SetInt16(sample * 32767, SampleDen)
     ELSE LET value == Floor(sample * 8388607, SampleDen)
          IN <<LowByte(value), LowByte(value \div 256), LowByte(value \div 65536)>>

\* Mutant: the inner loop over the channels left out.
NextPosition_FirstChannelOnly(i, channel, numChannels) == <<i + 1, 0>>

\* The loop "for i ... for channel ...": the position after (i, channel).
NextPosition(i, channel, numChannels) ==
  IF channel + 1 < numChannels THEN <<i, channel + 1>> ELSE <<i + 1, 0>>

\* The calls of audioBufferToWav the model makes.
WavCalls ==
  {[pc |-> "called",
    audioBuffer |-> [numberOfChannels |-> c, length |-> n, sampleRate |-> r],
    quality |-> q] :
     c \in 1..MaxWavChannels, n \in 1..MaxWavFrames, r \in WavSampleRates,
     q \in WavQualities}

\* Lines 1-41: the bit depth, the ArrayBuffer, the header, offset = 44.
WavBegin ==
  /\ wav.pc = "called"
  /\ LET b == wav.audioBuffer
     IN wav' =
          [pc |-> "writing", audioBuffer |-> b, quality |-> wav.quality,
           bitsPerSample |-> BitsPerSample(wav.quality),
           byteLength |-> WavByteLength(b.length, b.numberOfChannels, wav.quality),
           header |-> WavHeader(b.length, b.numberOfChannels, b.sampleRate,
                                wav.quality),
           i |-> 0, channel |-> 0, offset |-> 44, writes |-> <<>>,
           last |-> <<>>]
  /\ UNCHANGED <<studioVars, pageVars>>

\* One iteration of the inner loop: read the sample, writeSample it.  writes
\* lists where each (frame, channel) went; last is the latest sample and the
\* bytes stored for it.
WavWriteSample ==
  /\ wav.pc = "writing"
  /\ wav.i < wav.audioBuffer.length
  /\ \E sample \in SampleValues :
       LET bytes == WriteSample(sample, wav.bitsPerSample)
           next == NextPosition(wav.i, wav.channel, wav.audioBuffer.numberOfChannels)
       IN wav' =
            [wav EXCEPT
               !.writes = Append(@, [frame |-> wav.i, channel |-> wav.channel,
                                     offset |-> wav.offset]),
               !.last = <<[sample |-> sample, bytes |-> bytes]>>,
               !.offset = @ + Len(bytes),
               !.i = next[1],
               !.channel = next[2]]
  /\ UNCHANGED <<studioVars, pageVars>>

\* The loops are over: the Blob is returned.
WavReturn ==
  /\ wav.pc = "writing"
  /\ wav.i >= wav.audioBuffer.length
  /\ wav' = [wav EXCEPT !.pc = "done"]
  /\ UNCHANGED <<studioVars, pageVars>>

\* ------------------------------------------------------------------ export
\* The sources exportComposition creates in the offline context before it
\* calls startRendering: it creates none.
OfflineSources(trks, ss) == <<>>

\* exportComposition for the WAV format: the offline context (2 channels,
\* ceil(duration * rate) frames), what is scheduled into it, and the blob made
\* from the rendered buffer.  A context of 0 frames cannot be constructed.
ExportComposition ==
  \E quality \in QualityValues :
    LET sampleRate == ContextSampleRate
        length == CeilDiv(compositionDuration * sampleRate, TicksPerSecond)
    IN /\ Len(tracks) > 0
       /\ length > 0
       /\ exportResult' =
            <<[sources |-> OfflineSources(tracks, samples),
               numberOfChannels |-> 2,
               length |-> length,
               quality |-> quality,
               header |-> WavHeader(length, 2, sampleRate, quality),
               byteLength |-> WavByteLength(length, 2, quality)]>>
       /\ toast' = "Export complete"
       /\ UNCHANGED <<libraryVars, trackVars, currentTime, playbackVars,
                      deviceTime, timers, wav, pageVars, mountVars, onended, dialogVars>>

\* ExportDialog.handleExport after onExport returned: the dialog closes itself.
CloseExportDialog ==
  /\ exportResult # <<>>
  /\ exportResult' = <<>>
  /\ UNCHANGED <<libraryVars, trackVars, currentTime, playbackVars, deviceTime,
                 timers, toast, wav, pageVars, mountVars, onended, dialogVars>>

\* ---------------------------------------------------------- playback state
\* The refs, the isPlaying flag, and what the device and the event loop hold.
PlaybackState ==
  [isPlaying |-> isPlaying, audioSources |-> audioSources,
   timeUpdateInterval |-> timeUpdateInterval, startTimeRef |-> startTimeRef,
   started |-> started, intervals |-> intervals]

SetPlaybackState(st) ==
  /\ isPlaying' = st.isPlaying
  /\ audioSources' = st.audioSources
  /\ timeUpdateInterval' = st.timeUpdateInterval
  /\ startTimeRef' = st.startTimeRef
  /\ started' = st.started
  /\ intervals' = st.intervals

\* The closure of a render: what a callback created in it goes on reading.
Closure ==
  [tracks |-> tracks, samples |-> samples, currentTime |-> currentTime,
   compositionDuration |-> compositionDuration]

\* A source has played its buffer to the end by device time now.
Ended(s, now) ==
  s.when <= now /\ MulRate(now - s.when, s.rate) >= s.buffer - s.offset

\* source.stop() on a source that has already ended raises an exception in
\* some builds and none in others: the sets of sources of the list whose
\* stop() may raise.
StopOutcomes ==
  SUBSET {s \in Range(audioSources) : Ended(s, deviceTime)}

\* Mutant: the catch block throws the exception again.
StopSourceCaught_Rethrown(raised) == raised

\* try { source.stop() } catch (e) { console.log(e) }: whether an exception
\* stop() raised leaves the block.
StopSourceCaught(raised) == FALSE

\* audioSources.current.forEach: the sources still started afterwards, and
\* whether an exception left the loop.
RECURSIVE StopSources(_, _, _)
StopSources(sources, startedSet, throwing) ==
  IF sources = <<>> THEN [started |-> startedSet, raised |-> FALSE]
  ELSE IF StopSourceCaught(Head(sources) \in throwing)
       THEN [started |-> startedSet, raised |-> TRUE]
       ELSE StopSources(Tail(sources), startedSet \ {Head(sources)}, throwing)

\* stopPlayback: stop every source of the list, empty the list, clear the
\* interval the ref names, isPlaying false.  An exception that leaves the
\* loop ends the call there.
StopPlayback(st, throwing) ==
  LET loop == StopSources(st.audioSources, st.started, throwing)
  IN IF loop.raised
     THEN [st EXCEPT !.started = loop.started]
     ELSE [st EXCEPT !.started = loop.started,
                     !.audioSources = <<>>,
                     !.intervals =
                       {iv \in st.intervals :
                          iv.id \notin Range(st.timeUpdateInterval)},
                     !.timeUpdateInterval = <<>>,
                     !.isPlaying = FALSE]

\* setInterval's return value: a handle no registered interval and no source
\* still known carries.
FreshHandle(st) ==
  LET used == {iv.id : iv \in st.intervals} \cup Range(st.timeUpdateInterval)
                \cup {s.call : s \in st.started}
                \cup {s.call : s \in Range(st.audioSources)}
  IN CHOOSE h \in 1..(Cardinality(used) + 1) :
       h \notin used /\ \A g \in 1..(h - 1) : g \in used

\* Mutant: playComposition without its stopPlayback call.
StopBeforePlay_Skipped(st, throwing) == st

\* The first step of playComposition after its guard.
StopBeforePlay(st, throwing) == StopPlayback(st, throwing)

\* playComposition, run in closure c at device time deviceNow.
PlayComposition(st, c, deviceNow, throwing) ==
  IF ~audioContext \/ Len(c.tracks) = 0 THEN st
  ELSE LET stopped == StopBeforePlay(st, throwing)
           call == FreshHandle(st)
           sources == Schedule(call, c.tracks, c.samples, c.currentTime, deviceNow)
       IN [stopped EXCEPT
             !.startTimeRef = deviceNow,
             !.audioSources = stopped.audioSources \o sources,
             !.started = stopped.started \cup Range(sources),
             !.isPlaying = TRUE,
             !.timeUpdateInterval = <<call>>,
             !.intervals =
               stopped.intervals
                 \cup {[id |-> call, currentTime |-> c.currentTime,
                        compositionDuration |-> c.compositionDuration,
                        startTime |-> deviceNow]}]

\* ----------------------------------------------------------------- actions
\* audioBufferToWav not called.
WavIdle == [pc |-> "idle"]

\* No track is being dragged and no drag listener is registered; no edit-track
\* dialog is open.
DragIdle ==
  [isDragging |-> FALSE, draggingTrackId |-> <<>>, dragStartX |-> 0,
   dragStartTime |-> 0, listeners |-> <<>>]

DialogsClosed ==
  /\ editingTrack = <<>>
  /\ currentTrack = <<>>
  /\ drag = DragIdle
  /\ onended = {}

\* Nothing loaded on the waveform tab, and no function call under way.
PageIdle == [audioBuffer |-> "null"]

WaveformIdle == [audioBuffer |-> "null"]

NoCall == [pc |-> "idle"]

\* The page has created the audio context by the time the Studio tab mounts
\* the workspace.
MountedAfterContext ==
  /\ audioContext = TRUE
  /\ impulseResponse = ImpulseResponse(audioContext)

\* The workspace as its first render leaves it.
StudioMounted ==
  /\ samples \in Libraries
  /\ tracks = <<>>
  /\ selectedSampleId = "null"
  /\ compositionDuration = 0
  /\ currentTime = 0
  /\ isPlaying = FALSE
  /\ audioSources = <<>>
  /\ timeUpdateInterval = <<>>
  /\ startTimeRef = 0
  /\ clock = 1
  /\ edits = 0
  /\ deviceTime = 0
  /\ started = {}
  /\ intervals = {}
  /\ timers = <<>>
  /\ exportResult = <<>>
  /\ toast = ""
  /\ polled = FALSE
  /\ wav = WavIdle
  /\ page = PageIdle
  /\ waveform = WaveformIdle
  /\ fnCall = NoCall
  /\ DialogsClosed

Init == StudioMounted /\ MountedAfterContext

\* The Select button of a library sample.
SelectSample ==
  \E i \in 1..Len(samples) :
    /\ selectedSampleId' = samples[i].id
    /\ UNCHANGED <<samples, trackVars, currentTime, playbackVars, deviceTime,
                   timers, exportResult, toast, wav, pageVars, mountVars, onended, dialogVars>>

\* addTrack (the button is disabled while no sample is selected).
AddTrack ==
  /\ selectedSampleId # "null"
  /\ edits' = edits + 1
  /\ \E t \in clock..MaxClock :
       LET newTrack == CreateTrack(selectedSampleId, t)
       IN /\ clock' = t
          /\ tracks' = Append(tracks, newTrack)
          /\ compositionDuration' =
               UpdateCompositionDuration(Append(tracks, newTrack), samples)
  /\ toast' = "Track added"
  /\ UNCHANGED <<libraryVars, currentTime, playbackVars, deviceTime, timers,
                 exportResult, wav, pageVars, mountVars, onended, dialogVars>>

\* removeTrack.
RemoveTrack ==
  \E k \in 1..Len(tracks) :
    LET trackId == tracks[k].id
        updatedTracks == SelectSeq(tracks, LAMBDA track : track.id # trackId)
    IN /\ edits' = edits + 1
       /\ tracks' = updatedTracks
       /\ compositionDuration' = UpdateCompositionDuration(updatedTracks, samples)
       /\ toast' = "Track removed"
       /\ UNCHANGED <<libraryVars, clock, currentTime, playbackVars, deviceTime,
                      timers, exportResult, wav, pageVars, mountVars, onended, dialogVars>>

\* { ...track, ...updates }
Merge(track, updates) ==
  [f \in DOMAIN track |-> IF f \in DOMAIN updates THEN updates[f] ELSE track[f]]

\* updateTrack's tracks.map over the track list of the render it runs in.
UpdatedTracks(trks, trackId, updates) ==
  [k \in 1..Len(trks) |->
     IF trks[k].id = trackId THEN Merge(trks[k], updates) ELSE trks[k]]

\* updateTrack.
UpdateTrack(trackId, updates) ==
  LET updatedTracks == UpdatedTracks(tracks, trackId, updates)
  IN /\ edits' = edits + 1
     /\ tracks' = updatedTracks
     /\ compositionDuration' = UpdateCompositionDuration(updatedTracks, samples)
     /\ UNCHANGED <<libraryVars, clock, currentTime, playbackVars, deviceTime,
                    timers, exportResult, toast, wav, pageVars, mountVars, onended, dialogVars>>

\* The effects tab: the start-time input (handleTrackPositionChange), the
\* repetitions select and the pitch slider.
EditStartTime ==
  \E k \in 1..Len(tracks), newPosition \in StartTimes :
    UpdateTrack(tracks[k].id, [startTime |-> Max(0, newPosition)])

EditRepetitions ==
  \E k \in 1..Len(tracks), value \in RepetitionValues :
    UpdateTrack(tracks[k].id, [repetitions |-> value])

EditPitch ==
  \E k \in 1..Len(tracks), value \in PitchValues :
    UpdateTrack(tracks[k].id, [pitchSemitones |-> value])

\* What is typed into a number input: <<>> for text that parses to NaN (the
\* empty field), <<n>> for the number n, in ticks.  min={0} on the input
\* restricts the spinner, not the text.
TypedNumbers == {<<>>, <<0 - 8>>, <<12>>}

\* Number.parseFloat(e.target.value) || 0
ParseFloatOrZero(text) == IF text = <<>> THEN 0 ELSE text[1]

\* The in-component edit-track dialog: openTrackEditor, the start-time input,
\* the repetitions select, Cancel and Save Changes.
OpenTrackEditor ==
  /\ editingTrack = <<>>
  /\ currentTrack = <<>>
  /\ \E k \in 1..Len(tracks) : editingTrack' = <<tracks[k]>>
  /\ UNCHANGED <<libraryVars, trackVars, currentTime, playbackVars, deviceTime,
                 timers, exportResult, toast, wav, pageVars, mountVars, onended, currentTrack, drag>>

EditingTrackStartTime ==
  /\ editingTrack # <<>>
  /\ \E text \in TypedNumbers :
       editingTrack' =
         <<Merge(editingTrack[1], [startTime |-> ParseFloatOrZero(text)])>>
  /\ UNCHANGED <<libraryVars, trackVars, currentTime, playbackVars, deviceTime,
                 timers, exportResult, toast, wav, pageVars, mountVars, onended, currentTrack, drag>>

EditingTrackRepetitions ==
  /\ editingTrack # <<>>
  /\ \E value \in RepetitionValues :
       editingTrack' = <<Merge(editingTrack[1], [repetitions |-> value])>>
  /\ UNCHANGED <<libraryVars, trackVars, currentTime, playbackVars, deviceTime,
                 timers, exportResult, toast, wav, pageVars, mountVars, onended, currentTrack, drag>>

CancelEditingTrack ==
  /\ editingTrack # <<>>
  /\ editingTrack' = <<>>
  /\ UNCHANGED <<libraryVars, trackVars, currentTime, playbackVars, deviceTime,
                 timers, exportResult, toast, wav, pageVars, mountVars, onended, currentTrack, drag>>

SaveEditingTrack ==
  /\ editingTrack # <<>>
  /\ LET updatedTracks ==
           UpdatedTracks(tracks, editingTrack[1].id, editingTrack[1])
     IN /\ tracks' = updatedTracks
        /\ compositionDuration' = UpdateCompositionDuration(updatedTracks, samples)
  /\ edits' = edits + 1
  /\ editingTrack' = <<>>
  /\ UNCHANGED <<libraryVars, clock, currentTime, playbackVars, deviceTime,
                 timers, exportResult, toast, wav, pageVars, mountVars, onended, currentTrack, drag>>

\* The store-based EditTrackDialog over the track list: setCurrentTrack, the
\* store's updateTrack from the start-time input and the repetitions select,
\* resetTrack (Cancel) and Save Changes.
SetCurrentTrack ==
  /\ editingTrack = <<>>
  /\ currentTrack = <<>>
  /\ \E k \in 1..Len(tracks) : currentTrack' = <<tracks[k]>>
  /\ UNCHANGED <<libraryVars, trackVars, currentTime, playbackVars, deviceTime,
                 timers, exportResult, toast, wav, pageVars, mountVars, onended, editingTrack, drag>>

StoreUpdateTrack ==
  /\ currentTrack # <<>>
  /\ \/ \E text \in TypedNumbers :
          currentTrack' =
            <<[currentTrack[1] EXCEPT !.startTime = ParseFloatOrZero(text)]>>
     \/ \E value \in RepetitionValues :
          currentTrack' = <<[currentTrack[1] EXCEPT !.repetitions = value]>>
  /\ UNCHANGED <<libraryVars, trackVars, currentTime, playbackVars, deviceTime,
                 timers, exportResult, toast, wav, pageVars, mountVars, onended, editingTrack, drag>>

ResetTrack ==
  /\ currentTrack # <<>>
  /\ currentTrack' = <<>>
  /\ UNCHANGED <<libraryVars, trackVars, currentTime, playbackVars, deviceTime,
                 timers, exportResult, toast, wav, pageVars, mountVars, onended, editingTrack, drag>>

StoreSaveChanges ==
  /\ currentTrack # <<>>
  /\ currentTrack' = <<>>
  /\ tracks' =
       [k \in 1..Len(tracks) |->
          IF tracks[k].id = currentTrack[1].id THEN currentTrack[1] ELSE tracks[k]]
  /\ edits' = edits + 1
  /\ UNCHANGED <<libraryVars, compositionDuration, clock, currentTime,
                 playbackVars, deviceTime, timers, exportResult, toast, wav,
                 pageVars, mountVars, onended, editingTrack, drag>>

\* Track dragging.  Pointer positions in pixels; at zoom level 1 a second is
\* 100 pixels wide.
ClientXs == {100, 150, 300}
PixelsPerSecond == 100

\* Math.round(newStartTime * 2) / 2, in ticks.
SnapToGrid(newStartTime) ==
  LET half == TicksPerSecond \div 2
  IN ((2 * newStartTime + half) \div (2 * half)) * half

\* What the handleDragMove and handleDragEnd of a render go on reading.
DragClosure ==
  [tracks |-> tracks, samples |-> samples, isDragging |-> drag.isDragging,
   draggingTrackId |-> drag.draggingTrackId, dragStartX |-> drag.dragStartX,
   dragStartTime |-> drag.dragStartTime]

\* A listener whose handlers act: isDragging and draggingTrackId are set in
\* the render that registered it.
Dragging(listener) == listener.isDragging /\ listener.draggingTrackId # <<>>

\* handleDragStart on the k-th track with the left button: playback stopped,
\* the drag state set, the mousemove and mouseup handlers of this render
\* added to the document.
HandleDragStart ==
  /\ Len(drag.listeners) < MaxDragListeners
  /\ \E k \in 1..Len(tracks), clientX \in ClientXs :
       drag' = [isDragging |-> TRUE, draggingTrackId |-> <<tracks[k].id>>,
                dragStartX |-> clientX, dragStartTime |-> tracks[k].startTime,
                listeners |-> Append(drag.listeners, DragClosure)]
  /\ IF isPlaying
     THEN \E throwing \in StopOutcomes :
            SetPlaybackState(StopPlayback(PlaybackState, throwing))
     ELSE UNCHANGED playbackVars
  /\ UNCHANGED <<libraryVars, trackVars, currentTime, deviceTime, timers,
                 exportResult, toast, wav, pageVars, mountVars, onended, editingTrack, currentTrack>>

\* handleDragMove of one listener: the start time it gives the track it drags.
DragStartTime(listener, clientX, shiftKey) ==
  LET deltaX == clientX - listener.dragStartX
      deltaTime == (deltaX * TicksPerSecond) \div PixelsPerSecond
      newStartTime == Max(0, listener.dragStartTime + deltaTime)
  IN IF shiftKey THEN newStartTime ELSE SnapToGrid(newStartTime)

\* A mousemove on the document: every listener runs, in the order added; the
\* updateTrack of each works on the track list of its own render, and the
\* state set last stays.
HandleDragMove ==
  \E clientX \in ClientXs, shiftKey \in BOOLEAN :
    LET acting ==
          SelectSeq(drag.listeners,
                    LAMBDA l : Dragging(l)
                                 /\ \E k \in 1..Len(l.tracks) :
                                      l.tracks[k].id = l.draggingTrackId[1])
    IN /\ acting # <<>>
       /\ LET listener == acting[Len(acting)]
              updatedTracks ==
                UpdatedTracks(listener.tracks, listener.draggingTrackId[1],
                              [startTime |->
                                 DragStartTime(listener, clientX, shiftKey)])
          IN /\ tracks' = updatedTracks
             /\ compositionDuration' =
                  UpdateCompositionDuration(updatedTracks, listener.samples)
       /\ edits' = edits + 1
       /\ UNCHANGED <<libraryVars, clock, currentTime, playbackVars, deviceTime,
                      timers, exportResult, toast, wav, pageVars, mountVars, onended, dialogVars>>

\* A mouseup on the document: a listener that acts clears the drag state and
\* removes itself; the others stay.
HandleDragEnd ==
  /\ \E i \in 1..Len(drag.listeners) : Dragging(drag.listeners[i])
  /\ drag' = [drag EXCEPT !.isDragging = FALSE, !.draggingTrackId = <<>>,
                          !.listeners =
                            SelectSeq(drag.listeners, LAMBDA l : ~Dragging(l))]
  /\ toast' = "Track moved"
  /\ UNCHANGED <<libraryVars, trackVars, currentTime, playbackVars, deviceTime,
                 timers, exportResult, wav, pageVars, mountVars, onended, editingTrack, currentTrack>>

\* Mutant: the in-use check always negative.
IsUsed_Never(trks, sampleId) == FALSE

\* deleteSample's check.
IsUsed(trks, sampleId) == \E k \in 1..Len(trks) : trks[k].sampleId = sampleId

\* deleteSample on the i-th sample of the library; a sample in use only
\* raises a toast.
DeleteSampleAt(i) ==
  LET sampleId == samples[i].id
  IN /\ IF IsUsed(tracks, sampleId)
        THEN /\ toast' = "Cannot delete sample"
             /\ UNCHANGED libraryVars
        ELSE /\ samples' = SelectSeq(samples, LAMBDA sample : sample.id # sampleId)
             /\ selectedSampleId' =
                  IF selectedSampleId = sampleId THEN "null" ELSE selectedSampleId
             /\ toast' = "Sample deleted"
     /\ UNCHANGED <<trackVars, currentTime, playbackVars, deviceTime, timers,
                    exportResult, wav, pageVars, mountVars, onended, dialogVars>>

DeleteSample == \E i \in 1..Len(samples) : DeleteSampleAt(i)

\* The Play / Stop button (disabled while there is no track).
TogglePlay ==
  /\ Len(tracks) > 0
  /\ \E throwing \in StopOutcomes :
       SetPlaybackState(IF isPlaying
                        THEN StopPlayback(PlaybackState, throwing)
                        ELSE PlayComposition(PlaybackState, Closure,
                                             deviceTime, throwing))
  /\ polled' = FALSE
  /\ UNCHANGED <<libraryVars, trackVars, currentTime, deviceTime, timers,
                 exportResult, toast, wav, pageVars, audioContext,
                 impulseResponse, onended, dialogVars>>

\* The Reset button.
ResetCursor ==
  /\ Len(tracks) > 0
  /\ currentTime' = 0
  /\ polled' = FALSE
  /\ UNCHANGED <<libraryVars, trackVars, playbackVars, deviceTime, timers,
                 exportResult, toast, wav, pageVars, audioContext,
                 impulseResponse, onended, dialogVars>>

\* What a seek does after moving the cursor: when playing, stop and set a
\* timer that calls the playComposition of this render.  target records the
\* position the same handler passed to setCurrentTime.
RestartIfPlaying(target) ==
  IF isPlaying
  THEN /\ Len(timers) < MaxTimers
       /\ \E throwing \in StopOutcomes :
            SetPlaybackState(StopPlayback(PlaybackState, throwing))
       /\ timers' = Append(timers, [closure |-> Closure, target |-> target])
  ELSE UNCHANGED <<playbackVars, timers>>

\* seekToPosition: a click on the timeline.
SeekToPosition ==
  \E newTime \in SeekTimes :
    LET target == Max(0, Min(newTime, compositionDuration))
    IN /\ currentTime' = target
       /\ RestartIfPlaying(target)
       /\ polled' = FALSE
       /\ UNCHANGED <<libraryVars, trackVars, deviceTime, exportResult, toast,
                      wav, pageVars, audioContext,
                      impulseResponse, onended, dialogVars>>

\* The play button on a track.
TrackPlayButton ==
  \E k \in 1..Len(tracks) :
    LET trackStartTime == tracks[k].startTime
    IN /\ currentTime' = trackStartTime
       /\ RestartIfPlaying(trackStartTime)
       /\ polled' = FALSE
       /\ UNCHANGED <<libraryVars, trackVars, deviceTime, exportResult, toast,
                      wav, pageVars, audioContext,
                      impulseResponse, onended, dialogVars>>

\* The 50 ms timer of a seek fires: playComposition of the render that set it.
RestartTimer ==
  /\ timers # <<>>
  /\ \E throwing \in StopOutcomes :
       SetPlaybackState(PlayComposition(PlaybackState, Head(timers).closure,
                                        deviceTime, throwing))
  /\ timers' = Tail(timers)
  /\ UNCHANGED <<libraryVars, trackVars, currentTime, deviceTime, exportResult,
                 toast, wav, pageVars, mountVars, onended, dialogVars>>

\* Mutant: the callback publishes the elapsed time alone.
NewTime_ElapsedOnly(iv, deviceNow, startTimeRefCurrent) ==
  deviceNow - startTimeRefCurrent

\* elapsed and newTime of the setInterval callback: the cursor of the render
\* that called playComposition plus the device time gone by since the time
\* the ref holds.
NewTime(iv, deviceNow, startTimeRefCurrent) ==
  iv.currentTime + (deviceNow - startTimeRefCurrent)

\* Mutant: the callback tests the composition duration of the latest render.
PollTick_LiveDuration ==
  \E iv \in intervals :
    LET newTime == NewTime(iv, deviceTime, startTimeRef)
    IN /\ IF newTime >= compositionDuration
          THEN /\ \E throwing \in StopOutcomes :
                    SetPlaybackState(StopPlayback(PlaybackState, throwing))
               /\ currentTime' = 0
               /\ polled' = FALSE
          ELSE /\ currentTime' = newTime
               /\ polled' = TRUE
               /\ UNCHANGED playbackVars
       /\ UNCHANGED <<libraryVars, trackVars, deviceTime, timers, exportResult,
                      toast, wav, pageVars, audioContext,
                      impulseResponse, onended, dialogVars>>

\* One run of the setInterval callback of playComposition.
PollTick ==
  \E iv \in intervals :
    LET newTime == NewTime(iv, deviceTime, startTimeRef)
    IN /\ IF newTime >= iv.compositionDuration
          THEN /\ \E throwing \in StopOutcomes :
                    SetPlaybackState(StopPlayback(PlaybackState, throwing))
               /\ currentTime' = 0
               /\ polled' = FALSE
          ELSE /\ currentTime' = newTime
               /\ polled' = TRUE
               /\ UNCHANGED playbackVars
       /\ UNCHANGED <<libraryVars, trackVars, deviceTime, timers, exportResult,
                      toast, wav, pageVars, audioContext,
                      impulseResponse, onended, dialogVars>>

\* The source playSample creates: the whole sample at its own rate through a
\* gain of 0.8, started at once; handle tells the previews apart.
PreviewSource(handle, sample, deviceNow) ==
  [call |-> handle, track |-> 0, rep |-> 0, when |-> deviceNow, offset |-> 0,
   buffer |-> sample.duration,
   graph |-> [values |-> {<<"sampleGain", 80>>},
              connections |-> {<<"source", "sampleGain">>,
                               <<"sampleGain", "gainNode">>}],
   rate |-> <<1, 1, 1>>, gain |-> 80]

\* playSample: every source of the list stopped, the list emptied, the
\* preview started and pushed, its onended handler set.
PlaySample ==
  /\ audioContext
  /\ \E i \in 1..Len(samples), throwing \in StopOutcomes :
       LET loop == StopSources(audioSources, started, throwing)
           used == {s.call : s \in onended}
           handle == CHOOSE h \in 1..(Cardinality(used) + 1) : h \notin used
           source == PreviewSource(handle, samples[i], deviceTime)
       IN IF loop.raised
          THEN /\ started' = loop.started
               /\ UNCHANGED <<audioSources, onended>>
          ELSE /\ started' = loop.started \cup {source}
               /\ audioSources' = <<source>>
               /\ onended' = onended \cup {source}
  /\ UNCHANGED <<libraryVars, trackVars, currentTime, isPlaying,
                 timeUpdateInterval, startTimeRef, intervals, deviceTime, timers,
                 exportResult, toast, wav, pageVars, dialogVars, mountVars>>

\* The ended event of a preview that was stopped or has played to its end:
\* source.onended takes the source out of the list.
PreviewEnded ==
  \E source \in onended :
    /\ source \notin started \/ Ended(source, deviceTime)
    /\ onended' = onended \ {source}
    /\ started' = started \ {source}
    /\ audioSources' = SelectSeq(audioSources, LAMBDA s : s # source)
    /\ UNCHANGED <<libraryVars, trackVars, currentTime, isPlaying,
                   timeUpdateInterval, startTimeRef, intervals, deviceTime,
                   timers, exportResult, toast, wav, pageVars, dialogVars,
                   mountVars>>

\* The audio device clock moves on.
AdvanceDevice ==
  /\ deviceTime < MaxDeviceSteps * DeviceStep
  /\ deviceTime' = deviceTime + DeviceStep
  /\ UNCHANGED <<libraryVars, trackVars, currentTime, playbackVars, timers,
                 exportResult, toast, wav, pageVars, mountVars, onended, dialogVars>>

\* A change of the track list from the library and effects tabs.
\* The effects tab: the reverb slider, the delay time slider and the delay
\* feedback slider, which is disabled while the delay time is 0.
EditReverb ==
  \E k \in 1..Len(tracks), value \in ReverbValues :
    UpdateTrack(tracks[k].id, [reverbAmount |-> value])

EditDelayTime ==
  \E k \in 1..Len(tracks), value \in DelayTimeValues :
    UpdateTrack(tracks[k].id, [delayTime |-> value])

EditDelayFeedback ==
  \E k \in 1..Len(tracks), value \in DelayFeedbackValues :
    /\ tracks[k].delayTime # 0
    /\ UpdateTrack(tracks[k].id, [delayFeedback |-> value])

EditTracks ==
  \/ AddTrack
  \/ RemoveTrack
  \/ EditStartTime
  \/ EditRepetitions
  \/ EditPitch

\* The workspace with playback; tracks are added and repeated, at most
\* MaxPlaybackEdits times in all.
Next ==
  \/ edits < MaxPlaybackEdits /\ (AddTrack \/ EditRepetitions)
  \/ SelectSample
  \/ TogglePlay
  \/ ResetCursor
  \/ SeekToPosition
  \/ TrackPlayButton
  \/ RestartTimer
  \/ PollTick
  \/ AdvanceDevice

\* Mounted with a library of one 1 s sample.
InitPlayback == Init /\ Len(samples) = 1

Spec == InitPlayback /\ [][Next]_vars

\* The library, the track list and the export, without playback; the track
\* list changes at most MaxEdits times, and the workspace takes no input
\* while the modal export dialog is open.
NextTracks ==
  \/ exportResult = <<>> /\ edits < MaxEdits /\ EditTracks
  \/ exportResult = <<>> /\ SelectSample
  \/ exportResult = <<>> /\ DeleteSample
  \/ ExportComposition
  \/ CloseExportDialog

SpecTracks == Init /\ [][NextTracks]_vars

\* The studio workspace not in use: its state as constructed, no samples.
StudioUnmounted ==
  /\ samples = <<>>
  /\ tracks = <<>>
  /\ selectedSampleId = "null"
  /\ compositionDuration = 0
  /\ currentTime = 0
  /\ isPlaying = FALSE
  /\ audioSources = <<>>
  /\ timeUpdateInterval = <<>>
  /\ startTimeRef = 0
  /\ clock = 1
  /\ edits = 0
  /\ deviceTime = 0
  /\ started = {}
  /\ intervals = {}
  /\ timers = <<>>
  /\ exportResult = <<>>
  /\ toast = ""
  /\ polled = FALSE

\* audioBufferToWav alone, on every call of WavCalls.
InitWav ==
  /\ StudioUnmounted
  /\ wav \in WavCalls
  /\ page = PageIdle
  /\ waveform = WaveformIdle
  /\ fnCall = NoCall
  /\ DialogsClosed
  /\ MountedAfterContext

NextWav ==
  \/ WavBegin
  \/ WavWriteSample
  \/ WavReturn

SpecWav == InitWav /\ [][NextWav]_vars

\* Play from a cursor placed while stopped: the track list changes at most
\* MaxCursorEdits times, the timeline is clicked only while nothing plays.
NextCursor ==
  \/ edits < MaxCursorEdits /\ EditTracks
  \/ SelectSample
  \/ ~isPlaying /\ SeekToPosition
  \/ ResetCursor
  \/ TogglePlay

SpecCursor == InitPlayback /\ [][NextCursor]_vars

\* The effects of the tracks are set and the composition is played.
NextEffects ==
  \/ edits < MaxEffectEdits
       /\ (AddTrack \/ EditReverb \/ EditDelayTime \/ EditDelayFeedback)
  \/ SelectSample
  \/ TogglePlay

SpecEffects == InitPlayback /\ [][NextEffects]_vars

\* The track list edited from the effects tab, the two edit-track dialogs and
\* by dragging.
NextDialogs ==
  \/ edits < MaxDialogEdits
       /\ \/ AddTrack
          \/ EditStartTime
          \/ EditRepetitions
          \/ SaveEditingTrack
          \/ StoreSaveChanges
          \/ HandleDragMove
  \/ SelectSample
  \/ OpenTrackEditor
  \/ EditingTrackStartTime
  \/ EditingTrackRepetitions
  \/ CancelEditingTrack
  \/ SetCurrentTrack
  \/ StoreUpdateTrack
  \/ ResetTrack
  \/ HandleDragStart
  \/ HandleDragEnd

SpecDialogs == InitPlayback /\ [][NextDialogs]_vars

\* The mount effect of the page that creates the audio context.
InitializeAudioContext ==
  /\ ~audioContext
  /\ audioContext' = TRUE
  /\ UNCHANGED <<libraryVars, trackVars, currentTime, playbackVars, deviceTime,
                 timers, exportResult, toast, wav, pageVars, dialogVars,
                 impulseResponse, onended, polled>>

\* The workspace mounted before or after the page has created the audio
\* context; reverb and delay set and the composition played.
InitReverb ==
  /\ StudioMounted
  /\ Len(samples) = 1
  /\ audioContext \in BOOLEAN
  /\ impulseResponse = ImpulseResponse(audioContext)

NextReverb ==
  \/ edits < MaxEffectEdits /\ (AddTrack \/ EditReverb \/ EditDelayTime)
  \/ SelectSample
  \/ TogglePlay
  \/ InitializeAudioContext

SpecReverb == InitReverb /\ [][NextReverb]_vars

\* Library samples previewed while the composition plays and the device clock
\* runs.
NextPreview ==
  \/ edits < MaxPreviewEdits /\ (AddTrack \/ EditRepetitions)
  \/ SelectSample
  \/ TogglePlay
  \/ Cardinality(onended) < MaxPreviews /\ PlaySample
  \/ PreviewEnded
  \/ PollTick
  \/ AdvanceDevice

SpecPreview == InitPlayback /\ [][NextPreview]_vars

\* Play, poll and stop while the device clock runs, the cursor placed while
\* stopped.
NextStop ==
  \/ NextCursor
  \/ PollTick
  \/ AdvanceDevice

SpecStop == InitPlayback /\ [][NextStop]_vars

\* The user puts the composition together, plays, seeks and stops it for a
\* while and then leaves the workspace alone: the timers and the poll go
\* on, and the device clock is followed for as long as a playback has not
\* reached the end of its composition.
LastUserTime == MaxUserSteps * DeviceStep

DeviceRuns ==
  /\ \/ deviceTime < LastUserTime
     \/ \E iv \in intervals :
          NewTime(iv, deviceTime, startTimeRef) < iv.compositionDuration
  /\ deviceTime' = deviceTime + DeviceStep
  /\ UNCHANGED <<libraryVars, trackVars, currentTime, playbackVars, timers,
                 exportResult, toast, wav, pageVars, mountVars, onended, dialogVars>>

NextLive ==
  \/ deviceTime < LastUserTime /\ edits < MaxPlaybackEdits /\ currentTime = 0
       /\ ~isPlaying /\ timers = <<>> /\ (AddTrack \/ EditRepetitions)
  \/ deviceTime < LastUserTime /\ tracks = <<>> /\ SelectSample
  \/ deviceTime < LastUserTime /\ TogglePlay
  \/ deviceTime < LastUserTime /\ SeekToPosition
  \/ RestartTimer
  \/ PollTick
  \/ DeviceRuns

\* setInterval and setTimeout callbacks are run while they are registered,
\* and the audio clock does not stand still.
SpecLive ==
  /\ InitPlayback
  /\ [][NextLive]_vars
  /\ WF_vars(PollTick)
  /\ WF_vars(RestartTimer)
  /\ WF_vars(DeviceRuns)

\* ---------------------------------------------------------- waveform tab
\* A decoded file: frames per second, and for every channel its frames, each
\* frame a value of its own.
DecodedBuffer(numberOfChannels, length) ==
  [numberOfChannels |-> numberOfChannels, sampleRate |-> 2 * 2, length |-> length,
   channels |-> [c \in 1..numberOfChannels |->
                   [f \in 1..length |-> 10 * c + f]]]

UploadedBuffers == {DecodedBuffer(1, 6), DecodedBuffer(2, 4)}

\* buffer.duration in ticks.
BufferDuration(buffer) == (buffer.length * TicksPerSecond) \div buffer.sampleRate

\* The page once mounted, no file loaded: its state, its refs, and what the
\* browser holds for it: the sources that are playing, the sources whose
\* ended event is still to be delivered, the registered intervals and the
\* pending timeouts, each with the render it closes over.  error is the
\* exception that has left a handler.
PageMounted ==
  [audioBuffer |-> <<>>, duration |-> 0,
   isPlaying |-> FALSE, currentTime |-> 0, selectedRegion |-> <<>>,
   selectionJustCreated |-> FALSE, repeatSelection |-> FALSE,
   respectSelection |-> TRUE,
   audioSource |-> <<>>, timeUpdateInterval |-> <<>>, startTimeRef |-> 0,
   audioContextStartTimeRef |-> 0,
   playing |-> {}, ended |-> {}, intervals |-> {}, timers |-> <<>>,
   error |-> ""]

\* The waveform component: its drag state and its zoom.
WaveformLoaded ==
  [isDragging |-> FALSE, dragStart |-> <<>>, currentSelection |-> <<>>,
   zoomLevel |-> <<1, 1>>, zoomCenter |-> <<0, 1>>]

\* What the functions of a render of the page close over.
PageClosure(pg) ==
  [audioBuffer |-> pg.audioBuffer, selectedRegion |-> pg.selectedRegion,
   respectSelection |-> pg.respectSelection,
   repeatSelection |-> pg.repeatSelection]

\* stopExistingPlayback: stop the source the ref names (a source that is
\* playing gets its ended event after that), clear the interval the ref
\* names, isPlaying false.
StopExistingPlayback(pg) ==
  LET stopped == {src \in pg.playing : src.id \in Range(pg.audioSource)}
  IN [pg EXCEPT !.playing = pg.playing \ stopped,
                !.ended = pg.ended \cup {src.id : src \in stopped},
                !.audioSource = <<>>,
                !.intervals =
                  {iv \in pg.intervals :
                     iv.id \notin Range(pg.timeUpdateInterval)},
                !.timeUpdateInterval = <<>>,
                !.isPlaying = FALSE]

\* A handle for a new source and its interval: the least number that names
\* no source and no interval the browser still holds.
FreshPageHandle(pg) ==
  LET used == {src.id : src \in pg.playing} \cup pg.ended
                \cup {iv.id : iv \in pg.intervals}
                \cup Range(pg.audioSource) \cup Range(pg.timeUpdateInterval)
  IN CHOOSE h \in 1..(Cardinality(used) + 1) :
       h \notin used /\ \A g \in 1..(h - 1) : g \in used

\* startPlayback(fromPosition) of the render with closure c, at device time
\* now.
StartPlayback(pg, c, fromPosition, now) ==
  IF c.audioBuffer = <<>> THEN pg
  ELSE LET shouldRespectSelection ==
             c.selectedRegion # <<>> /\ c.respectSelection
           position ==
             IF /\ shouldRespectSelection
                /\ (fromPosition < c.selectedRegion[1]
                      \/ fromPosition > c.selectedRegion[2])
             THEN c.selectedRegion[1] ELSE fromPosition
           id == FreshPageHandle(pg)
       IN [pg EXCEPT
             !.startTimeRef = position,
             !.audioContextStartTimeRef = now,
             !.playing =
               pg.playing
                 \cup {[id |-> id, startedAt |-> now, offset |-> position]},
             !.audioSource = <<id>>,
             !.isPlaying = TRUE,
             !.timeUpdateInterval = <<id>>,
             !.intervals =
               pg.intervals
                 \cup {[id |-> id, closure |-> c,
                        shouldRespectSelection |-> shouldRespectSelection]}]

\* handleSelectionChange.
HandleSelectionChange(pg, region) ==
  [pg EXCEPT !.selectedRegion = region,
             !.selectionJustCreated =
               IF region # <<>> THEN TRUE ELSE pg.selectionJustCreated]

\* handleSeek.
HandleSeek(pg, newTime, fromWaveformClick) ==
  LET outside ==
        /\ fromWaveformClick
        /\ pg.selectedRegion # <<>>
        /\ (newTime < pg.selectedRegion[1] \/ newTime > pg.selectedRegion[2])
      moved == [pg EXCEPT !.respectSelection =
                            IF outside THEN FALSE ELSE pg.respectSelection,
                          !.currentTime = newTime]
  IN IF pg.isPlaying
     THEN [StopExistingPlayback(moved) EXCEPT
             !.timers = Append(pg.timers,
                               [closure |-> PageClosure(pg),
                                fromPosition |-> newTime])]
     ELSE moved

\* The studio state the waveform tab leaves alone.
pageRest ==
  <<tracks, selectedSampleId, compositionDuration, currentTime, isPlaying,
    audioSources, timeUpdateInterval, startTimeRef, started, intervals,
    timers, exportResult, wav, fnCall, editingTrack, currentTrack, drag,
    audioContext, impulseResponse, onended, polled>>

\* One more operation of the user on the waveform tab.
UserOperation == edits < MaxPageOps /\ edits' = edits + 1

\* handleFileUpload, once the file is decoded.
HandleFileUpload ==
  /\ UserOperation
  /\ page.audioBuffer = <<>>
  /\ \E buffer \in UploadedBuffers :
       page' = [page EXCEPT !.audioBuffer = <<buffer>>,
                            !.duration = BufferDuration(buffer)]
  /\ toast' = "Audio loaded successfully"
  /\ UNCHANGED <<pageRest, samples, clock, deviceTime, waveform>>

\* The times xToTime gives for the positions of the pointer.
PointerTimes == {0, 3, 8, 12}

\* handleMouseDown.
HandleMouseDown ==
  /\ UserOperation
  /\ page.audioBuffer # <<>>
  /\ \E startTime \in PointerTimes :
       /\ startTime <= page.duration
       /\ waveform' = [waveform EXCEPT
                         !.isDragging = TRUE, !.dragStart = <<startTime>>,
                         !.currentSelection = <<startTime, startTime>>]
  /\ UNCHANGED <<pageRest, samples, clock, deviceTime, toast, page>>

\* Mutant: the drag start always taken as the start of the selection.
HandleMouseMove_Unordered ==
  /\ UserOperation
  /\ page.audioBuffer # <<>>
  /\ waveform.isDragging /\ waveform.dragStart # <<>>
  /\ \E currentDragTime \in PointerTimes :
       LET startTime == waveform.dragStart[1]
           endTime == currentDragTime
       IN /\ currentDragTime <= page.duration
          /\ waveform' =
               [waveform EXCEPT !.currentSelection = <<startTime, endTime>>]
          /\ page' = HandleSelectionChange(page, <<startTime, endTime>>)
  /\ UNCHANGED <<pageRest, samples, clock, deviceTime, toast>>

\* handleMouseMove while a drag is under way.
HandleMouseMove ==
  /\ UserOperation
  /\ page.audioBuffer # <<>>
  /\ waveform.isDragging /\ waveform.dragStart # <<>>
  /\ \E currentDragTime \in PointerTimes :
       LET startTime == Min(waveform.dragStart[1], currentDragTime)
           endTime == Max(waveform.dragStart[1], currentDragTime)
       IN /\ currentDragTime <= page.duration
          /\ waveform' =
               [waveform EXCEPT !.currentSelection = <<startTime, endTime>>]
          /\ page' = HandleSelectionChange(page, <<startTime, endTime>>)
  /\ UNCHANGED <<pageRest, samples, clock, deviceTime, toast>>

\* handleMouseUp, also called by handleMouseLeave.
HandleMouseUp ==
  /\ UserOperation
  /\ page' = IF waveform.isDragging /\ waveform.currentSelection # <<>>
             THEN HandleSelectionChange(page, waveform.currentSelection)
             ELSE page
  /\ waveform' = [waveform EXCEPT !.isDragging = FALSE, !.dragStart = <<>>]
  /\ UNCHANGED <<pageRest, samples, clock, deviceTime, toast>>

\* handleCanvasClick: the click that follows a press and release.
HandleCanvasClick ==
  /\ UserOperation
  /\ page.audioBuffer # <<>>
  /\ ~waveform.isDragging
  /\ \E clickTime \in PointerTimes :
       /\ clickTime <= page.duration
       /\ Len(page.timers) < MaxPageTimers \/ ~page.isPlaying
       /\ page' = HandleSeek(page, Max(0, Min(clickTime, page.duration)), TRUE)
  /\ UNCHANGED <<pageRest, samples, clock, deviceTime, toast, waveform>>

\* The Clear Selection button; the pointer is not held down on the canvas.
ClearSelection ==
  /\ UserOperation
  /\ page.selectedRegion # <<>>
  /\ ~waveform.isDragging
  /\ page' = [page EXCEPT !.selectedRegion = <<>>, !.respectSelection = TRUE]
  /\ UNCHANGED <<pageRest, samples, clock, deviceTime, toast, waveform>>

\* audioBuffer.copyFromChannel into a new array of frameCount frames, from
\* frame startInChannel on: the frames the source has, 0 after its end.
CopyFromChannel(source, frameCount, startInChannel) ==
  [f \in 1..frameCount |->
     IF startInChannel + f <= Len(source) THEN source[startInChannel + f]
     ELSE 0]

\* The buffer extractSample fills for the selection [start, end].
ExtractedBuffer(buffer, start, end) ==
  LET frameCount == ((end - start) * buffer.sampleRate) \div TicksPerSecond
      startInChannel == (start * buffer.sampleRate) \div TicksPerSecond
  IN [numberOfChannels |-> buffer.numberOfChannels,
      sampleRate |-> buffer.sampleRate, length |-> frameCount,
      channels |-> [c \in 1..buffer.numberOfChannels |->
                      CopyFromChannel(buffer.channels[c], frameCount,
                                      startInChannel)]]

\* extractSample.  createBuffer raises NotSupportedError for a length of 0
\* frames, and the exception leaves the handler.
ExtractSample ==
  /\ UserOperation
  /\ page.audioBuffer # <<>>
  /\ page.selectedRegion # <<>>
  /\ LET sampleBuffer ==
           ExtractedBuffer(page.audioBuffer[1], page.selectedRegion[1],
                           page.selectedRegion[2])
     IN IF sampleBuffer.length = 0
        THEN /\ page' = [page EXCEPT !.error = "NotSupportedError"]
             /\ UNCHANGED <<samples, clock, toast>>
        ELSE /\ \E t \in clock..MaxClock :
                  /\ clock' = t
                  /\ samples' =
                       Append(samples,
                              [id |-> t, duration |-> BufferDuration(sampleBuffer),
                               buffer |-> sampleBuffer])
             /\ toast' = "Sample extracted"
             /\ UNCHANGED page
  /\ UNCHANGED <<pageRest, deviceTime, waveform>>

\* The waveform tab with a file: selecting with the pointer, clearing and
\* extracting.
InitPage ==
  /\ StudioUnmounted
  /\ wav = WavIdle
  /\ page = PageMounted
  /\ waveform = WaveformLoaded
  /\ fnCall = NoCall
  /\ DialogsClosed
  /\ MountedAfterContext

NextSelect ==
  \/ HandleFileUpload
  \/ HandleMouseDown
  \/ HandleMouseMove
  \/ HandleMouseUp
  \/ HandleCanvasClick
  \/ ClearSelection
  \/ Len(samples) < MaxExtracted /\ ExtractSample

SpecSelect == InitPage /\ [][NextSelect]_vars

\* togglePlayback: the play/pause button.
TogglePlayback ==
  /\ UserOperation
  /\ page.audioBuffer # <<>>
  /\ IF page.isPlaying
     THEN page' = StopExistingPlayback(page)
     ELSE LET outside ==
                /\ page.selectedRegion # <<>>
                /\ page.respectSelection
                /\ (page.currentTime < page.selectedRegion[1]
                      \/ page.currentTime >= page.selectedRegion[2])
              startPosition ==
                IF outside THEN page.selectedRegion[1] ELSE page.currentTime
          IN /\ Cardinality(page.playing) + Cardinality(page.ended)
                  < MaxPageSources
             /\ page' = StartPlayback(StopExistingPlayback(page),
                                      PageClosure(page), startPosition,
                                      deviceTime)
  /\ UNCHANGED <<pageRest, samples, clock, deviceTime, toast, waveform>>

\* The skip-back button: handleSeek(0).
SkipBack ==
  /\ UserOperation
  /\ page.audioBuffer # <<>>
  /\ Len(page.timers) < MaxPageTimers \/ ~page.isPlaying
  /\ page' = HandleSeek(page, 0, FALSE)
  /\ UNCHANGED <<pageRest, samples, clock, deviceTime, toast, waveform>>

\* The repeat switch, enabled while the selection is respected.
SetRepeatSelection ==
  /\ UserOperation
  /\ page.selectedRegion # <<>>
  /\ page.respectSelection
  /\ page' = [page EXCEPT !.repeatSelection = ~page.repeatSelection]
  /\ UNCHANGED <<pageRest, samples, clock, deviceTime, toast, waveform>>

\* A 50 ms timeout of a seek or of a repeat fires: startPlayback of the
\* render that set it.
PageTimerFires ==
  /\ page.timers # <<>>
  /\ Cardinality(page.playing) + Cardinality(page.ended) < MaxPageSources
  /\ page' =
       [StartPlayback(page, Head(page.timers).closure,
                      Head(page.timers).fromPosition, deviceTime)
          EXCEPT !.timers = Tail(page.timers)]
  /\ UNCHANGED <<pageRest, edits, samples, clock, deviceTime, toast,
                      waveform>>

\* One run of the setInterval callback of startPlayback.
PageIntervalTick ==
  \E iv \in page.intervals :
    LET elapsed == deviceTime - page.audioContextStartTimeRef
        newPosition == page.startTimeRef + elapsed
        c == iv.closure
    IN /\ IF iv.shouldRespectSelection /\ newPosition >= c.selectedRegion[2]
          THEN IF c.repeatSelection
               THEN /\ Len(page.timers) < MaxPageTimers
                    /\ page' =
                         [StopExistingPlayback(page) EXCEPT
                            !.timers =
                              Append(page.timers,
                                     [closure |-> c,
                                      fromPosition |-> c.selectedRegion[1]])]
               ELSE page' = [StopExistingPlayback(page) EXCEPT
                               !.currentTime = c.selectedRegion[1]]
          ELSE IF newPosition >= BufferDuration(c.audioBuffer[1])
               THEN page' = [StopExistingPlayback(page) EXCEPT
                               !.currentTime = 0]
               ELSE page' = [page EXCEPT !.currentTime = newPosition]
       /\ UNCHANGED <<pageRest, edits, samples, clock, deviceTime, toast,
                      waveform>>

\* A source plays its buffer to the end: its ended event is queued.
SourceFinishes ==
  \E src \in page.playing :
    /\ deviceTime >= src.startedAt + Max(0, page.duration - src.offset)
    /\ page' = [page EXCEPT !.playing = page.playing \ {src},
                            !.ended = page.ended \cup {src.id}]
    /\ UNCHANGED <<pageRest, edits, samples, clock, deviceTime, toast,
                      waveform>>

\* The ended event of source id is delivered: its onended handler runs
\* stopExistingPlayback.
SourceEnded(id) ==
  /\ id \in page.ended
  /\ page' = [StopExistingPlayback(page) EXCEPT
                !.ended = StopExistingPlayback(page).ended \ {id}]
  /\ UNCHANGED <<pageRest, edits, samples, clock, deviceTime, toast,
                      waveform>>

SourceEndedEvent == \E id \in page.ended : SourceEnded(id)

\* The waveform tab with a file: selecting, seeking and playing, with the
\* timers, polls and ended events of the browser.
NextPlayer ==
  \/ HandleFileUpload
  \/ HandleMouseDown
  \/ HandleMouseMove
  \/ HandleMouseUp
  \/ HandleCanvasClick
  \/ SkipBack
  \/ SetRepeatSelection
  \/ TogglePlayback
  \/ PageTimerFires
  \/ PageIntervalTick
  \/ SourceFinishes
  \/ SourceEndedEvent
  \/ AdvanceDevice

SpecPlayer == InitPage /\ [][NextPlayer]_vars

\* xToTime and timeToX alone: a position is mapped by one of them and the
\* result mapped back by the other, as when a time is drawn and the pixel
\* is clicked, or a pixel is dragged to and the region redrawn.
BufferDurations == {<<1, 1>>, <<3, 1>>, <<10, 1>>}
ZoomLevels == {<<1, 1>>, <<5, 4>>, <<2, 1>>, <<10, 1>>}
ZoomCenters == {<<0, 1>>, <<1, 4>>, <<1, 2>>, <<1, 1>>}
CanvasWidths == {<<3, 1>>, <<10, 1>>}
TimeGrid == {Rat(k, 4) : k \in 0..40}
PixelGrid == {<<k, 1>> : k \in 0..10}

InView(time, duration, zoomLevel, zoomCenter) ==
  /\ RatLeq(VisibleStart(duration, zoomLevel, zoomCenter), time)
  /\ RatLeq(time, VisibleEnd(duration, zoomLevel, zoomCenter))

MappingCalls ==
  {[pc |-> "called", first |-> "timeToX", arg |-> t, canvasWidth |-> w,
    audioBuffer |-> <<d>>, zoomLevel |-> z, zoomCenter |-> c] :
     <<t, w, d, z, c>> \in
       {q \in TimeGrid \X CanvasWidths \X BufferDurations \X ZoomLevels
                \X ZoomCenters : InView(q[1], q[3], q[4], q[5])}}
    \cup
  {[pc |-> "called", first |-> "xToTime", arg |-> x, canvasWidth |-> w,
    audioBuffer |-> <<d>>, zoomLevel |-> z, zoomCenter |-> c] :
     <<x, w, d, z, c>> \in
       {q \in PixelGrid \X CanvasWidths \X BufferDurations \X ZoomLevels
                \X ZoomCenters : RatLeq(q[1], q[2])}}
    \cup
  {[pc |-> "called", first |-> f, arg |-> <<1, 1>>, canvasWidth |-> w,
    audioBuffer |-> <<>>, zoomLevel |-> <<1, 1>>, zoomCenter |-> <<0, 1>>] :
     <<f, w>> \in {"timeToX", "xToTime"} \X CanvasWidths}

\* The first mapping returns.
MapThere ==
  /\ fnCall.pc = "called"
  /\ fnCall \in MappingCalls
  /\ fnCall' =
       [pc |-> "mapped", first |-> fnCall.first, arg |-> fnCall.arg,
        canvasWidth |-> fnCall.canvasWidth, audioBuffer |-> fnCall.audioBuffer,
        zoomLevel |-> fnCall.zoomLevel, zoomCenter |-> fnCall.zoomCenter,
        there |->
          IF fnCall.first = "timeToX"
          THEN TimeToX(fnCall.arg, fnCall.canvasWidth, fnCall.audioBuffer,
                       fnCall.zoomLevel, fnCall.zoomCenter)
          ELSE XToTime(fnCall.arg, fnCall.canvasWidth, fnCall.audioBuffer,
                       fnCall.zoomLevel, fnCall.zoomCenter)]
  /\ UNCHANGED <<studioVars, wav, page, waveform>>

\* The other mapping is applied to the result and returns.
MapBack ==
  /\ fnCall.pc = "mapped"
  /\ fnCall' =
       [pc |-> "done", first |-> fnCall.first, arg |-> fnCall.arg,
        canvasWidth |-> fnCall.canvasWidth, audioBuffer |-> fnCall.audioBuffer,
        zoomLevel |-> fnCall.zoomLevel, zoomCenter |-> fnCall.zoomCenter,
        there |-> fnCall.there,
        back |->
          IF fnCall.first = "timeToX"
          THEN XToTime(fnCall.there, fnCall.canvasWidth, fnCall.audioBuffer,
                       fnCall.zoomLevel, fnCall.zoomCenter)
          ELSE TimeToX(fnCall.there, fnCall.canvasWidth, fnCall.audioBuffer,
                       fnCall.zoomLevel, fnCall.zoomCenter)]
  /\ UNCHANGED <<studioVars, wav, page, waveform>>

InitMapping ==
  /\ StudioUnmounted
  /\ wav = WavIdle
  /\ page = PageIdle
  /\ waveform = WaveformIdle
  /\ fnCall \in MappingCalls
  /\ DialogsClosed
  /\ MountedAfterContext

NextMapping ==
  \/ MapThere
  \/ MapBack

SpecMapping == InitMapping /\ [][NextMapping]_vars

\* semitonesToPlaybackRate alone: the places that call it, with every value
\* of the pitch slider.
PitchSliderValues == (0 - 12)..12
RateCallSites ==
  {"applyPitchEffect", "playComposition", "updateCompositionDuration",
   "calculateTrackWidth"}
RateCalls ==
  [pc : {"called"}, site : RateCallSites, semitones : PitchSliderValues]

\* The call returns; applyPitchEffect writes the value to the source's
\* playbackRate, the other places keep it in a local.
RateReturn ==
  /\ fnCall.pc = "called"
  /\ fnCall \in RateCalls
  /\ fnCall' =
       [pc |-> "done", site |-> fnCall.site, semitones |-> fnCall.semitones,
        written |->
          IF fnCall.site = "applyPitchEffect"
          THEN "source.playbackRate.value" ELSE "playbackRate",
        value |-> SemitonesToPlaybackRate(fnCall.semitones)]
  /\ UNCHANGED <<studioVars, wav, page, waveform>>

InitPitch ==
  /\ StudioUnmounted
  /\ wav = WavIdle
  /\ page = PageIdle
  /\ waveform = WaveformIdle
  /\ fnCall \in RateCalls
  /\ DialogsClosed
  /\ MountedAfterContext

SpecPitch == InitPitch /\ [][RateReturn]_vars

\* ------------------------------------------------------------ waveform zoom
\* The canvas: its width, and the pointer positions inside it.
WheelPositions == {<<0, 1>>, <<3, 1>>, <<9, 1>>} \X {<<10, 1>>}

\* audioBuffer.duration of the loaded file, in seconds.
DurationSeconds == Rat(page.duration, TicksPerSecond)

\* The number literals 0.1 and 1.2.
ZoomStep == FloatRound(Rat(1, 10))
ZoomFactor == FloatRound(Rat(12, 10))

\* handleWheel: deltaY > 0 zooms out by a tenth, anything else zooms in; the
\* state is set only when the clamped level differs.
HandleWheel ==
  /\ page.audioBuffer # <<>>
  /\ \E position \in WheelPositions, deltaYPositive \in BOOLEAN :
       LET mouseTimePosition ==
             XToTime(position[1], position[2], <<DurationSeconds>>,
                     waveform.zoomLevel, waveform.zoomCenter)
           zoomDelta == IF deltaYPositive THEN <<0 - ZoomStep[1], ZoomStep[2]>>
                        ELSE ZoomStep
           newZoomLevel ==
             MathMax(<<1, 1>>,
                     MathMin(<<10, 1>>,
                             NumAdd(waveform.zoomLevel,
                                    NumMul(zoomDelta, waveform.zoomLevel))))
           newZoomCenter == NumDiv(mouseTimePosition, DurationSeconds)
       IN /\ newZoomLevel # waveform.zoomLevel
          /\ waveform' = [waveform EXCEPT !.zoomLevel = newZoomLevel,
                                          !.zoomCenter = newZoomCenter]
  /\ edits' = edits + 1
  /\ UNCHANGED <<pageRest, samples, clock, deviceTime, toast, page>>

\* handleZoomIn (the button is disabled from level 10 on).
HandleZoomIn ==
  /\ page.audioBuffer # <<>>
  /\ ~RatLeq(<<10, 1>>, waveform.zoomLevel)
  /\ waveform' =
       [waveform EXCEPT
          !.zoomLevel = MathMin(<<10, 1>>, NumMul(waveform.zoomLevel, ZoomFactor))]
  /\ edits' = edits + 1
  /\ UNCHANGED <<pageRest, samples, clock, deviceTime, toast, page>>

\* Mutant: zooming out without the lower limit.
HandleZoomOut_Unclamped ==
  /\ page.audioBuffer # <<>>
  /\ ~RatLeq(waveform.zoomLevel, <<1, 1>>)
  /\ LET newZoomLevel == NumDiv(waveform.zoomLevel, ZoomFactor)
     IN waveform' =
          [waveform EXCEPT
             !.zoomLevel = newZoomLevel,
             !.zoomCenter = IF newZoomLevel = <<1, 1>> THEN <<1, 2>> ELSE @]
  /\ edits' = edits + 1
  /\ UNCHANGED <<pageRest, samples, clock, deviceTime, toast, page>>

\* handleZoomOut (the button is disabled up to level 1); fully zoomed out,
\* the centre goes to the middle.
HandleZoomOut ==
  /\ page.audioBuffer # <<>>
  /\ ~RatLeq(waveform.zoomLevel, <<1, 1>>)
  /\ LET newZoomLevel ==
           MathMax(<<1, 1>>, NumDiv(waveform.zoomLevel, ZoomFactor))
     IN waveform' =
          [waveform EXCEPT
             !.zoomLevel = newZoomLevel,
             !.zoomCenter = IF newZoomLevel = <<1, 1>> THEN <<1, 2>> ELSE @]
  /\ edits' = edits + 1
  /\ UNCHANGED <<pageRest, samples, clock, deviceTime, toast, page>>

\* The zoom level after n presses of the zoom-in button from level 1.
RECURSIVE ZoomedIn(_)
ZoomedIn(n) ==
  IF n = 0 THEN <<1, 1>>
  ELSE MathMin(<<10, 1>>, NumMul(ZoomedIn(n - 1), ZoomFactor))

\* The waveform tab with a file loaded, the view as mounted or as twelve
\* presses of the zoom-in button leave it.
InitZoom ==
  /\ StudioUnmounted
  /\ wav = WavIdle
  /\ \E buffer \in UploadedBuffers :
       page = [PageMounted EXCEPT !.audioBuffer = <<buffer>>,
                                  !.duration = BufferDuration(buffer)]
  /\ \E n \in {0, 12} :
       waveform = [WaveformLoaded EXCEPT !.zoomLevel = ZoomedIn(n)]
  /\ fnCall = NoCall
  /\ DialogsClosed
  /\ MountedAfterContext

\* The view zoomed with the wheel and the two buttons, at most MaxZoomOps
\* times.
NextZoom ==
  edits < MaxZoomOps /\ (HandleWheel \/ HandleZoomIn \/ HandleZoomOut)

SpecZoom == InitZoom /\ [][NextZoom]_vars

\* -------------------------------------------------------- waveform columns
\* The first channel of a buffer, its values in quarters, and the widths of a
\* canvas in half pixels (getBoundingClientRect gives fractions; canvas.width
\* is whole).
ChannelValues == {-6, 0, 5}
ChannelData == UNION {[1..n -> ChannelValues] : n \in 0..MaxColumnFrames}
HalfPixelWidths == {2, 3, 4, 6}

\* The calls: useWaveform draws the whole buffer over rect.width,
\* drawWaveform the samples from startSample up to endSample over
\* canvas.width.
ColumnCalls ==
  {[pc |-> "called", site |-> "useWaveform", channelData |-> data,
    startSample |-> 0, endSample |-> Len(data), width |-> w] :
     data \in ChannelData, w \in HalfPixelWidths}
    \cup
  {[pc |-> "called", site |-> "drawWaveform", channelData |-> data,
    startSample |-> window[1], endSample |-> window[2], width |-> w] :
     data \in ChannelData,
     window \in {q \in (0..MaxColumnFrames) \X (0..(MaxColumnFrames + 1)) :
                   q[1] <= q[2]},
     w \in {h \in HalfPixelWidths : h % 2 = 0}}

\* Mutant: the step rounded down.
Step_Floor(call) ==
  LET visibleSamples == call.endSample - call.startSample
      quotient == (2 * visibleSamples) \div call.width
  IN IF call.site = "drawWaveform" THEN Max(1, quotient) ELSE quotient

\* step: Math.ceil(visibleSamples / width), at least 1 in drawWaveform.
Step(call) ==
  LET visibleSamples == call.endSample - call.startSample
      quotient == CeilDiv(2 * visibleSamples, call.width)
  IN IF call.site = "drawWaveform" THEN Max(1, quotient) ELSE quotient

\* The inner loop over j from the j-th sample on: the running minimum and
\* maximum, an index past the end of the channel skipped.
RECURSIVE ScanColumn(_, _, _, _, _)
ScanColumn(channelData, sampleOffset, step, j, running) ==
  IF j >= step THEN running
  ELSE LET index == sampleOffset + j
           datum == channelData[index + 1]
       IN ScanColumn(channelData, sampleOffset, step, j + 1,
                     IF index < Len(channelData)
                     THEN [minValue |-> IF datum < running.minValue
                                        THEN datum ELSE running.minValue,
                           maxValue |-> IF datum > running.maxValue
                                        THEN datum ELSE running.maxValue]
                     ELSE running)

\* The outer loop: a column for every i from 0 while i < width, minValue
\* starting at 1.0 and maxValue at -1.0.
DrawnColumns(call) ==
  [column \in 1..CeilDiv(call.width, 2) |->
     ScanColumn(call.channelData,
                call.startSample + (column - 1) * Step(call), Step(call), 0,
                [minValue |-> SampleDen, maxValue |-> 0 - SampleDen])]

\* The waveform is drawn.
DrawColumns ==
  /\ fnCall.pc = "called"
  /\ fnCall \in ColumnCalls
  /\ fnCall' = [pc |-> "drawn", call |-> fnCall, step |-> Step(fnCall),
                columns |-> DrawnColumns(fnCall)]
  /\ UNCHANGED <<studioVars, wav, page, waveform>>

InitColumns ==
  /\ StudioUnmounted
  /\ wav = WavIdle
  /\ page = PageIdle
  /\ waveform = WaveformIdle
  /\ fnCall \in ColumnCalls
  /\ DialogsClosed
  /\ MountedAfterContext

SpecColumns == InitColumns /\ [][DrawColumns]_vars

\* ------------------------------------------------- extraction in floats
\* extractSample's arithmetic on numbers as the engine holds them: a decoded
\* file of some length and rate, every frame a value of its own, and a
\* committed selection of two numbers within [0, buffer.duration].
ExtractLengths == {5, 12}
ExtractRates == {3, 7}
SelectionTimes(duration) ==
  {t \in {FloatRound(Rat(k, 7)) : k \in 0..MaxSelectionSevenths} \cup {duration} :
     RatLeq(t, duration)}

SelectionsOf(n, r) ==
  LET duration == NumDiv(Rat(n, 1), Rat(r, 1))
  IN {[pc |-> "called", length |-> n, sampleRate |-> r,
       duration |-> duration, start |-> region[1], end |-> region[2]] :
        region \in {q \in SelectionTimes(duration) \X SelectionTimes(duration) :
                      RatLeq(q[1], q[2])}}

ExtractCalls ==
  UNION {SelectionsOf(n, r) : n \in ExtractLengths, r \in ExtractRates}

\* Mutant: the product rounded up.
Frames_Ceil(seconds, sampleRate) ==
  LET product == NumMul(seconds, Rat(sampleRate, 1))
  IN CeilDiv(product[1], product[2])

\* Math.floor(seconds * audioBuffer.sampleRate).
Frames(seconds, sampleRate) ==
  LET product == NumMul(seconds, Rat(sampleRate, 1))
  IN Floor(product[1], product[2])

\* extractSample on the call's buffer and selection: the length of the
\* new buffer, the frame the copy starts at, and the channel copied.
ExtractCall ==
  /\ fnCall.pc = "called"
  /\ fnCall \in ExtractCalls
  /\ LET sampleDuration == NumSub(fnCall.end, fnCall.start)
         frameCount == Frames(sampleDuration, fnCall.sampleRate)
         startInChannel == Frames(fnCall.start, fnCall.sampleRate)
     IN fnCall' = [pc |-> "extracted", call |-> fnCall,
                   frameCount |-> frameCount,
                   startInChannel |-> startInChannel,
                   channelData |->
                     CopyFromChannel([f \in 1..fnCall.length |-> f],
                                     frameCount, startInChannel)]
  /\ UNCHANGED <<studioVars, wav, page, waveform>>

InitExtract ==
  /\ StudioUnmounted
  /\ wav = WavIdle
  /\ page = PageIdle
  /\ waveform = WaveformIdle
  /\ fnCall \in ExtractCalls
  /\ DialogsClosed
  /\ MountedAfterContext

SpecExtract == InitExtract /\ [][ExtractCall]_vars

\* The library and the track list with dragging: tracks added, removed,
\* edited and dragged, samples selected and deleted.
NextLibrary ==
  \/ edits < MaxLibraryEdits
       /\ \/ AddTrack
          \/ RemoveTrack
          \/ EditRepetitions
          \/ HandleDragMove
  \/ SelectSample
  \/ DeleteSample
  \/ HandleDragStart
  \/ HandleDragEnd

SpecLibrary == Init /\ [][NextLibrary]_vars

\* The workspace after a track came back from a stale drag listener: library
\* [s1, s2]; track 1 added on s1 and pressed twice; track 1 removed and s1
\* deleted; a mousemove, which sets the track list and the duration of the
\* render the second press registered; a mouseup.
UnresolvedMounted ==
  LET s1 == [id |-> "s1", duration |-> TicksPerSecond]
      s2 == [id |-> "s2", duration |-> 2 * TicksPerSecond]
      pressed == [tracks |-> <<CreateTrack("s1", 1)>>, samples |-> <<s1, s2>>,
                  isDragging |-> FALSE, draggingTrackId |-> <<>>,
                  dragStartX |-> 0, dragStartTime |-> 0]
  IN /\ samples = <<s2>>
     /\ tracks = <<CreateTrack("s1", 1)>>
     /\ selectedSampleId = "null"
     /\ compositionDuration = UpdateCompositionDuration(tracks, <<s1, s2>>)
     /\ drag = [isDragging |-> FALSE, draggingTrackId |-> <<>>,
                dragStartX |-> 100, dragStartTime |-> 0,
                listeners |-> <<pressed>>]
     /\ toast = "Track moved"
     /\ clock = 1

InitUnresolved ==
  /\ UnresolvedMounted
  /\ currentTime = 0
  /\ isPlaying = FALSE
  /\ audioSources = <<>>
  /\ timeUpdateInterval = <<>>
  /\ startTimeRef = 0
  /\ edits = 0
  /\ deviceTime = 0
  /\ started = {}
  /\ intervals = {}
  /\ timers = <<>>
  /\ exportResult = <<>>
  /\ wav = WavIdle
  /\ page = PageIdle
  /\ waveform = WaveformIdle
  /\ fnCall = NoCall
  /\ editingTrack = <<>>
  /\ currentTrack = <<>>
  /\ onended = {}
  /\ polled = FALSE
  /\ MountedAfterContext

\* Edits, the cursor placed and the composition played from there.
SpecUnresolved == InitUnresolved /\ [][NextCursor]_vars

\* ================================================================== claims
\* What a source is, apart from the schedule it belongs to.
EventOf(s) ==
  [track |-> s.track, rep |-> s.rep, when |-> s.when, offset |-> s.offset,
   rate |-> s.rate, gain |-> s.gain]

EventsOf(sources) == [k \in 1..Len(sources) |-> EventOf(sources[k])]

\* The effective duration of one repetition of a track, and the composition
\* time at which its repetition i starts.
RepDuration(track, ss) ==
  LET rate == SemitonesToPlaybackRate(track.pitchSemitones)
  IN (FindSample(ss, track.sampleId)[1].duration * rate[2]) \div rate[1]

RepStart(track, ss, i) == track.startTime + i * RepDuration(track, ss)

\* C1: when Play is pressed with the cursor at T0 and the device at W0, for a
\* track whose repetition k straddles the cursor, repetition k is started at
\* W0 from offset (T0 - repStart_k) * rate and every later repetition i from
\* offset 0 at W0 + (repStart_i - T0).
C1_StraddleSchedule ==
  [][(~isPlaying /\ TogglePlay) =>
       \A t \in 1..Len(tracks) :
         FindSample(samples, tracks[t].sampleId) # <<>> =>
           \A k \in 0..(tracks[t].repetitions - 1) :
             (/\ RepStart(tracks[t], samples, k) < currentTime
              /\ currentTime < RepStart(tracks[t], samples, k + 1)) =>
               /\ \E s \in Range(audioSources') :
                    /\ s.track = t /\ s.rep = k /\ s.when = deviceTime
                    /\ s.offset =
                         MulRate(currentTime - RepStart(tracks[t], samples, k),
                                 SemitonesToPlaybackRate(tracks[t].pitchSemitones))
               /\ \A i \in (k + 1)..(tracks[t].repetitions - 1) :
                    \E s \in Range(audioSources') :
                      /\ s.track = t /\ s.rep = i /\ s.offset = 0
                      /\ s.when =
                           deviceTime
                             + (RepStart(tracks[t], samples, i) - currentTime)]_vars

\* C2: the playComposition a seek restarts uses the seek target as its
\* cursor T0.
C2_RestartFromSeekTarget ==
  [][RestartTimer =>
       \A iv \in intervals' :
         iv.id \in Range(timeUpdateInterval') =>
           iv.currentTime = Head(timers).target]_vars

\* C3: exportComposition schedules into the offline context the events the
\* playComposition algorithm produces for T0 = 0 and W0 = 0 over the current
\* tracks.
C3_ExportSchedulesComposition ==
  [][ExportComposition =>
       EventsOf(exportResult'[1].sources)
         = EventsOf(Schedule(0, tracks, samples, 0, 0))]_vars

\* C4: at most one polling interval is registered, it is the one the ref
\* names, and every source started and not stopped belongs to the most recent
\* playComposition call (the call whose interval the ref names).
C4_SingleSchedule ==
  /\ Cardinality(intervals) <= 1
  /\ \A iv \in intervals : timeUpdateInterval = <<iv.id>>
  /\ \A s \in started : timeUpdateInterval = <<s.call>>

\* C4 witness: playback restarted by a seek timer over a playback that was
\* running, several sources started.
C4_Witness ==
  /\ isPlaying
  /\ timeUpdateInterval = <<2>>
  /\ Cardinality(started) >= 2

\* C5: deleteSample on a sample some track references leaves the sample list,
\* the track list and the selected-sample id unchanged and shows the warning;
\* and no step removes from the library a sample that a track references.
C5_DeleteRejectedWhileUsed ==
  [][/\ \A i \in 1..Len(samples) :
          (/\ DeleteSampleAt(i)
           /\ \E k \in 1..Len(tracks) : tracks[k].sampleId = samples[i].id) =>
            /\ samples' = samples
            /\ tracks' = tracks
            /\ selectedSampleId' = selectedSampleId
            /\ toast' = "Cannot delete sample"
     /\ \A i \in 1..Len(samples) :
          (\A j \in 1..Len(samples') : samples'[j].id # samples[i].id) =>
            \A k \in 1..Len(tracks) : tracks[k].sampleId # samples[i].id]_vars

\* C5 witness: a deletion was rejected; the library and the tracks are there.
C5_Witness ==
  /\ toast = "Cannot delete sample"
  /\ Len(samples) = 2
  /\ \E k \in 1..Len(tracks) : tracks[k].sampleId = samples[1].id

\* The composition duration as the claim derives it: the greatest end time
\* over the tracks whose sample resolves, 0 when there is none.
EndTimes(trks, ss) ==
  {trks[k].startTime + RepDuration(trks[k], ss) * trks[k].repetitions :
     k \in {j \in 1..Len(trks) : FindSample(ss, trks[j].sampleId) # <<>>}}

DerivedDuration(trks, ss) ==
  IF EndTimes(trks, ss) = {} THEN 0
  ELSE CHOOSE m \in EndTimes(trks, ss) : \A e \in EndTimes(trks, ss) : e <= m

\* A track of the given sample duration, start time, repetitions and pitch.
IsTrack(track, ss, duration, startTime, repetitions, pitchSemitones) ==
  /\ FindSample(ss, track.sampleId) # <<>>
  /\ FindSample(ss, track.sampleId)[1].duration = duration
  /\ track.startTime = startTime
  /\ track.repetitions = repetitions
  /\ track.pitchSemitones = pitchSemitones

\* The two-track example: a 1 s sample 3 times from 0, a 1 s sample once
\* from 2.5 s.
TwoTrackExample(trks, ss) ==
  /\ Len(trks) = 2
  /\ IsTrack(trks[1], ss, TicksPerSecond, 0, 3, 0)
  /\ IsTrack(trks[2], ss, TicksPerSecond, 20, 1, 0)

\* C6: after addTrack, removeTrack or updateTrack the composition duration is
\* the greatest startTime + (duration / rate) * repetitions over the tracks
\* whose sample resolves (0 without one): 2 s for a 2 s sample once from 0,
\* 1 s for the same an octave up, 3.5 s for the two-track example.
C6_DurationAfterEdit ==
  [][EditTracks =>
       /\ compositionDuration' = DerivedDuration(tracks', samples')
       /\ (Len(tracks') = 1
           /\ IsTrack(tracks'[1], samples', 2 * TicksPerSecond, 0, 1, 0))
            => compositionDuration' = 16
       /\ (Len(tracks') = 1
           /\ IsTrack(tracks'[1], samples', 2 * TicksPerSecond, 0, 1, 12))
            => compositionDuration' = 8
       /\ TwoTrackExample(tracks', samples') => compositionDuration' = 28]_vars

\* C6 witness: the two-track example, built by two addTrack and two
\* updateTrack, with its duration of 3.5 s.
C6_Witness ==
  /\ TwoTrackExample(tracks, samples)
  /\ compositionDuration = 28
  /\ edits = 4

\* The export scenario: one track, a 2 s sample once from 0, no effect.
ExportScenario(trks, ss) ==
  /\ Len(trks) = 1
  /\ IsTrack(trks[1], ss, 2 * TicksPerSecond, 0, 1, 0)
  /\ trks[1].reverbAmount = 0
  /\ trks[1].delayTime = 0

\* C7, as stated: in the export scenario the duration is 2 s and the WAV
\* exported at quality 1 is a 24-bit file of 44 + 2 * 44100 * 3 bytes.
C7_MonoByteCount ==
  [][(/\ ExportComposition
      /\ ExportScenario(tracks, samples)
      /\ exportResult'[1].quality = 100) =>
       /\ compositionDuration = 16
       /\ exportResult'[1].header.bitsPerSample = 24
       /\ exportResult'[1].byteLength = 44 + 2 * 44100 * 3]_vars

\* C7, amended: in the export scenario the duration is 2 s and the WAV
\* exported at quality 1 is a 24-bit file of the 2-channel rendered buffer,
\* 44 + 2 * 44100 * 2 * 3 = 529244 bytes.
C7_StereoByteCount ==
  [][(/\ ExportComposition
      /\ ExportScenario(tracks, samples)
      /\ exportResult'[1].quality = 100) =>
       /\ compositionDuration = 16
       /\ exportResult'[1].numberOfChannels = 2
       /\ exportResult'[1].length = 2 * 44100
       /\ exportResult'[1].header.bitsPerSample = 24
       /\ exportResult'[1].header.numChannels = 2
       /\ exportResult'[1].byteLength = 529244]_vars

\* C7 witness: the scenario exported at quality 1.
C7_Witness ==
  /\ ExportScenario(tracks, samples)
  /\ compositionDuration = 16
  /\ exportResult # <<>>
  /\ exportResult[1].quality = 100
  /\ exportResult[1].byteLength = 529244

\* The signed value of little-endian two's-complement bytes.
RECURSIVE UnsignedLE(_)
UnsignedLE(bytes) ==
  IF bytes = <<>> THEN 0 ELSE Head(bytes) + 256 * UnsignedLE(Tail(bytes))

RECURSIVE Pow256(_)
Pow256(n) == IF n = 0 THEN 1 ELSE 256 * Pow256(n - 1)

SignedLE(bytes) ==
  IF UnsignedLE(bytes) >= Pow256(Len(bytes)) \div 2
  THEN UnsignedLE(bytes) - Pow256(Len(bytes))
  ELSE UnsignedLE(bytes)

\* Math.round(n / d) for d > 0.
Round(n, d) == (2 * n + d) \div (2 * d)

\* C8: a sample is clamped to [-1, 1]; at 16 bits the stored value is
\* round(sample * 32767) as a signed little-endian 16-bit integer; at 24 bits
\* it is floor(sample * 8388607) in 3 little-endian two's-complement bytes.
C8_SampleEncoding ==
  (wav.pc \in {"writing", "done"} /\ wav.last # <<>>) =>
    LET sample == Max(-SampleDen, Min(SampleDen, wav.last[1].sample))
        bytes == wav.last[1].bytes
    IN IF wav.bitsPerSample = 16
       THEN Len(bytes) = 2 /\ SignedLE(bytes) = Round(sample * 32767, SampleDen)
       ELSE Len(bytes) = 3
            /\ SignedLE(bytes) = (sample * 8388607) \div SampleDen

\* C9: 24 bits per sample when quality >= 0.8 and 16 otherwise; the header
\* holds RIFF size 36 + data size, fmt size 16, format 1, the channel count,
\* the sample rate, byte rate R * C * bytesPerSample, block align
\* C * bytesPerSample, the bits per sample and data size N * C *
\* bytesPerSample; the output is 44 + N * C * bytesPerSample bytes long.
C9_HeaderAndLength ==
  wav.pc \in {"writing", "done"} =>
    LET N == wav.audioBuffer.length
        C == wav.audioBuffer.numberOfChannels
        R == wav.audioBuffer.sampleRate
        bits == IF wav.quality >= 80 THEN 24 ELSE 16
        bytesPerSample == bits \div 8
    IN /\ wav.bitsPerSample = bits
       /\ wav.header.riff = "RIFF" /\ wav.header.wave = "WAVE"
       /\ wav.header.fmt = "fmt " /\ wav.header.data = "data"
       /\ wav.header.riffSize = 36 + N * C * bytesPerSample
       /\ wav.header.fmtSize = 16
       /\ wav.header.audioFormat = 1
       /\ wav.header.numChannels = C
       /\ wav.header.sampleRate = R
       /\ wav.header.byteRate = R * C * bytesPerSample
       /\ wav.header.blockAlign = C * bytesPerSample
       /\ wav.header.bitsPerSample = bits
       /\ wav.header.dataSize = N * C * bytesPerSample
       /\ wav.byteLength = 44 + N * C * bytesPerSample

\* C9 witness: a finished call at the threshold quality 0.8, 2 channels.
C9_Witness ==
  /\ wav.pc = "done"
  /\ wav.quality = 80
  /\ wav.audioBuffer.numberOfChannels = 2
  /\ wav.bitsPerSample = 24

\* C10: the sample of frame f and channel c is written at byte offset
\* 44 + (f * C + c) * bytesPerSample; every (frame, channel) is written
\* exactly once and the offset ends at the end of the allocated buffer.
C10_FrameMajorInterleaving ==
  wav.pc \in {"writing", "done"} =>
    LET N == wav.audioBuffer.length
        C == wav.audioBuffer.numberOfChannels
        bytesPerSample == wav.bitsPerSample \div 8
        w == wav.writes
    IN /\ \A k \in 1..Len(w) :
            /\ w[k].frame \in 0..(N - 1) /\ w[k].channel \in 0..(C - 1)
            /\ w[k].offset = 44 + (w[k].frame * C + w[k].channel) * bytesPerSample
       /\ \A k, l \in 1..Len(w) :
            (w[k].frame = w[l].frame /\ w[k].channel = w[l].channel) => k = l
       /\ wav.pc = "done" =>
            /\ \A f \in 0..(N - 1), c \in 0..(C - 1) :
                 \E k \in 1..Len(w) : w[k].frame = f /\ w[k].channel = c
            /\ wav.offset = wav.byteLength

\* C10 witness: a finished call on 2 frames of 2 channels at 24 bits.
C10_Witness ==
  /\ wav.pc = "done"
  /\ wav.audioBuffer.length = 2
  /\ wav.audioBuffer.numberOfChannels = 2
  /\ wav.bitsPerSample = 24
  /\ Len(wav.writes) = 4

\* b to the power n, n >= 0.
RECURSIVE Power(_, _)
Power(b, n) == IF n = 0 THEN 1 ELSE b * Power(b, n - 1)

\* C17: for every integer k in [-12, 12] semitonesToPlaybackRate(k) is
\* 2^(k/12), the positive number whose 12th power is 2^k: 1 for 0, 2 for 12,
\* 1/2 for -12; and it is the value written to the source's playbackRate.
C17_PlaybackRate ==
  (fnCall.pc = "done" /\ fnCall.site \in RateCallSites) =>
    LET k == fnCall.semitones
        rate == fnCall.value
    IN /\ rate[1] > 0 /\ rate[2] > 0 /\ rate[3] > 0
       /\ 12 % rate[3] = 0
       /\ Power(rate[1], 12 \div rate[3]) * (IF k < 0 THEN Pow2(-k) ELSE 1)
            = Power(rate[2], 12 \div rate[3]) * (IF k > 0 THEN Pow2(k) ELSE 1)
       /\ k = 0 => rate = <<1, 1, 1>>
       /\ k = 12 => rate = <<2, 1, 1>>
       /\ k = 0 - 12 => rate = <<1, 2, 1>>
       /\ fnCall.site = "applyPitchEffect"
            => fnCall.written = "source.playbackRate.value"

\* C17 witness: applyPitchEffect has written the rate of 7 semitones.
C17_Witness ==
  /\ fnCall.pc = "done"
  /\ fnCall.site = "applyPitchEffect"
  /\ fnCall.semitones = 7
  /\ fnCall.value = <<128, 1, 12>>

\* Exactly one track differs between the two lists, and only by a greater
\* repetitions or a greater startTime.
OneTrackIncreased(before, after) ==
  /\ Len(after) = Len(before)
  /\ \E k \in 1..Len(before) :
       /\ after = [before EXCEPT ![k] = after[k]]
       /\ \/ /\ after[k].repetitions > before[k].repetitions
             /\ after[k] =
                  [before[k] EXCEPT !.repetitions = after[k].repetitions]
          \/ /\ after[k].startTime > before[k].startTime
             /\ after[k] = [before[k] EXCEPT !.startTime = after[k].startTime]

\* C16: all else fixed, an updateTrack that increases one track's
\* repetitions or one track's startTime never decreases the composition
\* duration updateCompositionDuration computes.
C16_DurationMonotone ==
  [][((EditRepetitions \/ EditStartTime) /\ OneTrackIncreased(tracks, tracks'))
       => /\ compositionDuration' >= compositionDuration
          /\ UpdateCompositionDuration(tracks', samples')
               >= UpdateCompositionDuration(tracks, samples)]_vars

\* C16 witness: a track moved to 2.5 s and repeated 3 times; the duration
\* has grown to its end, 5.5 s.
C16_Witness ==
  /\ Len(tracks) = 1
  /\ IsTrack(tracks[1], samples, TicksPerSecond, 20, 3, 0)
  /\ compositionDuration = 44

\* The sources of a schedule that belong to repetition i of track t.
SourcesOf(sources, t, i) ==
  {k \in 1..Len(sources) : sources[k].track = t /\ sources[k].rep = i}

\* C20: Play with the cursor at T0 emits exactly one source for every
\* (track, repetition) whose sample resolves and whose end time
\* startTime + (i+1) * duration/rate is greater than T0, none for a repetition
\* that ends at or before T0, and nothing else.
C20_EmitsRepetitionsEndingAfterCursor ==
  [][(~isPlaying /\ TogglePlay) =>
       /\ \A k \in 1..Len(audioSources') :
            /\ audioSources'[k].track \in 1..Len(tracks)
            /\ audioSources'[k].rep
                 \in 0..(tracks[audioSources'[k].track].repetitions - 1)
       /\ \A t \in 1..Len(tracks) :
            \A i \in 0..(tracks[t].repetitions - 1) :
              Cardinality(SourcesOf(audioSources', t, i)) =
                IF /\ FindSample(samples, tracks[t].sampleId) # <<>>
                   /\ RepStart(tracks[t], samples, i + 1) > currentTime
                THEN 1 ELSE 0]_vars

\* A 1 s sample three times from 0, played from 1.5 s: the first repetition
\* is over and only the other two are emitted.
C20_Witness ==
  /\ isPlaying
  /\ Len(tracks) = 1
  /\ IsTrack(tracks[1], samples, TicksPerSecond, 0, 3, 0)
  /\ \E iv \in intervals : iv.id \in Range(timeUpdateInterval) /\ iv.currentTime = 12
  /\ Len(audioSources) = 2
  /\ SourcesOf(audioSources, 1, 0) = {}

\* Nothing is playing: no source in the list, no poll registered.
PlaybackIdle(st) ==
  ~st.isPlaying /\ st.audioSources = <<>> /\ st.timeUpdateInterval = <<>>

\* C15: whenever the Play/Stop button calls stopPlayback, whichever of the
\* sources that have already ended raise an error when stopped, no error
\* leaves the call, it
\* leaves isPlaying false, the source list empty, every source of the list
\* stopped and the poll cleared, a second call changes nothing, and a call
\* with nothing playing changes nothing at all.
C15_StopIdempotentAndSafe ==
  [][TogglePlay =>
       \A throwing \in StopOutcomes :
         LET once == StopPlayback(PlaybackState, throwing)
         IN /\ ~StopSources(audioSources, started, throwing).raised
            /\ PlaybackIdle(once)
            /\ once.started \cap Range(audioSources) = {}
            /\ \A iv \in once.intervals :
                 iv.id \notin Range(timeUpdateInterval)
            /\ StopPlayback(once, {}) = once
            /\ PlaybackIdle(PlaybackState) => once = PlaybackState
            /\ isPlaying => PlaybackState' = once]_vars

\* Playback from 1.5 s ran for half a second, so that the source started
\* in the middle of the sample had ended, and was then stopped by the button.
C15_Witness ==
  /\ ~isPlaying
  /\ currentTime = 16
  /\ deviceTime = DeviceStep
  /\ audioSources = <<>>
  /\ intervals = {}
  /\ timers = <<>>

\* The track list with the feedback of every track whose delay is off set
\* to f.
WithFeedback(trks, f) ==
  [k \in 1..Len(trks) |->
     IF trks[k].delayTime = 0 THEN [trks[k] EXCEPT !.delayFeedback = f]
     ELSE trks[k]]

\* What is heard of a schedule: every event with its signal graph.
RenderedOf(sources) ==
  [k \in 1..Len(sources) |->
     [event |-> EventOf(sources[k]), graph |-> sources[k].graph]]

DelayNodes == {"delayNode", "delayFeedbackGain", "delayDryGain", "delayWetGain"}

\* C14: when Play is pressed, the events emitted and the graph built for
\* each source are the ones emitted and built for any other feedback value
\* of the tracks whose delayTime is 0, and the graph of a source of such a
\* track has no delay node, feedback gain or delay dry/wet gain, created or
\* connected.
C14_FeedbackInertWithoutDelay ==
  [][(~isPlaying /\ TogglePlay) =>
       /\ \A f \in DelayFeedbackValues :
            RenderedOf(Schedule(0, WithFeedback(tracks, f), samples,
                                currentTime, deviceTime))
              = RenderedOf(audioSources')
       /\ \A k \in 1..Len(audioSources') :
            tracks[audioSources'[k].track].delayTime = 0 =>
              /\ \A v \in audioSources'[k].graph.values : v[1] \notin DelayNodes
              /\ \A e \in audioSources'[k].graph.connections :
                   e[1] \notin DelayNodes /\ e[2] \notin DelayNodes]_vars

\* A track whose delay was switched off after its feedback had been set to
\* 0.5 is playing.
C14_Witness ==
  /\ isPlaying
  /\ \E k \in 1..Len(audioSources) :
       /\ audioSources[k].track \in 1..Len(tracks)
       /\ tracks[audioSources[k].track].delayTime = 0
       /\ tracks[audioSources[k].track].delayFeedback = 50
       /\ audioSources[k].graph.connections
            = {<<"source", "trackGain">>, <<"trackGain", "gainNode">>}

\* The spacing of numbers next to 1.
MachineEpsilon == <<1, Pow2(MantissaBits - 1)>>

\* The statement as made: mapping a visible time to a pixel and back, or a
\* pixel to a time and back, returns exactly the value started from.
C12_ExactRoundTrip ==
  (fnCall.pc = "done" /\ fnCall.audioBuffer # <<>>) => fnCall.back = fnCall.arg

\* C12: for a zoom level from 1 to 10, a zoomCenter in [0, 1], a width
\* W > 0 and a buffer of positive duration, a time t of the visible window
\* mapped by timeToX and back by xToTime differs from t by at most
\* 4 * epsilon * duration, and a pixel x of [0, W] mapped by xToTime and back
\* by timeToX differs from x by at most 4 * epsilon * zoomLevel * W, epsilon
\* being the spacing of numbers next to 1.
C12_RoundTripWithinRounding ==
  (fnCall.pc = "done" /\ fnCall.audioBuffer # <<>>) =>
    RatLeq(RatAbs(RatSub(fnCall.back, fnCall.arg)),
           IF fnCall.first = "timeToX"
           THEN RatMul(RatMul(<<4, 1>>, MachineEpsilon), fnCall.audioBuffer[1])
           ELSE RatMul(RatMul(<<4, 1>>, MachineEpsilon),
                       RatMul(fnCall.zoomLevel, fnCall.canvasWidth)))

\* A time of a zoomed window away from the left edge has gone to a pixel
\* and back and is not the value started from.
C12_Witness ==
  /\ fnCall.pc = "done"
  /\ fnCall.first = "timeToX"
  /\ fnCall.audioBuffer # <<>>
  /\ fnCall.zoomLevel = <<2, 1>>
  /\ fnCall.zoomCenter = <<1, 2>>
  /\ fnCall.back # fnCall.arg

\* C11: a press and release on the waveform with no pointer movement in
\* between leaves the committed selection as it was before, or null, never
\* the zero-length [t, t] of the press.
C11_ClickLeavesNoDegenerateSelection ==
  [][(/\ HandleMouseUp
      /\ waveform.isDragging
      /\ waveform.currentSelection
           = <<waveform.dragStart[1], waveform.dragStart[1]>>)
       => (page'.selectedRegion = page.selectedRegion
             \/ page'.selectedRegion = <<>>)]_vars

\* C13: extractSample on the committed selection [start, end] appends a
\* sample whose buffer has the channel count and rate of the source and
\* floor((end - start) * R) frames, channel c holding the source's frames
\* from floor(start * R) on in order, and leaves the source buffer as it was.
C13_ExtractIsSizeExact ==
  [][ExtractSample =>
       LET source == page.audioBuffer[1]
           start == page.selectedRegion[1]
           end == page.selectedRegion[2]
           frameCount == ((end - start) * source.sampleRate) \div TicksPerSecond
           first == (start * source.sampleRate) \div TicksPerSecond
       IN /\ Len(samples') = Len(samples) + 1
          /\ LET made == samples'[Len(samples')].buffer
             IN /\ made.numberOfChannels = source.numberOfChannels
                /\ made.sampleRate = source.sampleRate
                /\ made.length = frameCount
                /\ \A c \in 1..source.numberOfChannels :
                     /\ Len(made.channels[c]) = frameCount
                     /\ \A f \in 1..frameCount :
                          made.channels[c][f] = source.channels[c][first + f]
          /\ page'.audioBuffer = page.audioBuffer
          /\ page'.error = page.error]_vars

\* C18: when the ended event of a source that the ref no longer names is
\* delivered while a newer source is the current one, the newer source
\* keeps playing, its poll interval stays registered and isPlaying stays as
\* it is.
C18_StaleEndedIsHarmless ==
  [][\A id \in page.ended :
       (/\ SourceEnded(id)
        /\ page.audioSource # <<>>
        /\ id \notin Range(page.audioSource))
         => /\ page'.playing = page.playing
            /\ page'.audioSource = page.audioSource
            /\ page'.intervals = page.intervals
            /\ page'.timeUpdateInterval = page.timeUpdateInterval
            /\ page'.isPlaying = page.isPlaying]_vars

\* C19: in every state of the waveform player at most one source is
\* playing, at most one poll interval is registered, and every registered
\* interval is the one the ref names.
C19_OneSourceOneInterval ==
  /\ Cardinality(page.playing) <= 1
  /\ Cardinality(page.intervals) <= 1
  /\ \A iv \in page.intervals : iv.id \in Range(page.timeUpdateInterval)


\* C21: a poll tick of a playback started at cursor T0 and device time W0
\* computes newTime = T0 + (deviceNow - W0); at newTime >= the composition
\* duration of that playback it stops playback (every source stopped, the
\* poll cleared, isPlaying false) and sets currentTime to 0, otherwise it
\* sets currentTime to newTime and leaves playback alone.
C21_PollTickPublishesCursor ==
  [][PollTick =>
       \A iv \in intervals :
         LET newTime == iv.currentTime + (deviceTime - iv.startTime)
         IN IF newTime >= iv.compositionDuration
            THEN /\ started' = {}
                 /\ audioSources' = <<>>
                 /\ intervals' = {}
                 /\ timeUpdateInterval' = <<>>
                 /\ ~isPlaying'
                 /\ currentTime' = 0
            ELSE /\ currentTime' = newTime
                 /\ UNCHANGED playbackVars]_vars

\* C21 witness: a playback started at a cursor other than 0 has been polled
\* after the device clock moved, and goes on.
C21_Witness ==
  /\ isPlaying
  /\ \E iv \in intervals :
       /\ iv.currentTime > 0
       /\ deviceTime > iv.startTime
       /\ currentTime = iv.currentTime + (deviceTime - iv.startTime)
       /\ currentTime < iv.compositionDuration


ReverbPresent(graph, track) ==
  /\ {<<"reverbNode", 0>>, <<"dryGain", 100 - track.reverbAmount>>,
      <<"wetGain", track.reverbAmount>>} \subseteq graph.values
  /\ <<"reverbNode", "wetGain">> \in graph.connections

NodesOf(graph) ==
  {e[1] : e \in graph.connections} \cup {e[2] : e \in graph.connections}

RECURSIVE ReachedFrom(_, _)
ReachedFrom(graph, nodes) ==
  LET next == nodes \cup {e[2] : e \in {d \in graph.connections : d[1] \in nodes}}
  IN IF next = nodes THEN nodes ELSE ReachedFrom(graph, next)

Downstream(graph, node) ==
  ReachedFrom(graph, {e[2] : e \in {d \in graph.connections : d[1] = node}})

DelayActive(graph) == "delayNode" \in NodesOf(graph)
ReverbActive(graph) == "reverbNode" \in NodesOf(graph)

\* C24: in the graph of every emitted source the stages come in the order
\* delay, reverb, gain: with delay and reverb both active the mixed output of
\* the delay stage feeds the reverb stage, and the track-volume gain comes
\* after the reverb dry/wet mix, as the last node before the master output.
C24_StageOrder ==
  \A s \in started :
    LET graph == s.graph
    IN /\ {e[1] : e \in {d \in graph.connections : d[2] = "gainNode"}}
            = {"trackGain"}
       /\ ReverbActive(graph) =>
            /\ "trackGain" \in Downstream(graph, "dryGain")
            /\ "trackGain" \in Downstream(graph, "wetGain")
       /\ (DelayActive(graph) /\ ReverbActive(graph)) =>
            /\ {"dryGain", "reverbNode"} \subseteq Downstream(graph, "delayDryGain")
            /\ {"dryGain", "reverbNode"} \subseteq Downstream(graph, "delayWetGain")


\* C25: Play with the cursor at T0 and the device at W0 starts, for a track
\* with startTime >= T0 (startTime = T0 included), every repetition i once,
\* at W0 + (startTime + i * duration/rate - T0), from offset 0, at the rate of
\* the track's pitch and with the track's volume as gain.
C25_TrackAtOrAfterCursor ==
  [][(~isPlaying /\ TogglePlay) =>
       \A t \in 1..Len(tracks) :
         (FindSample(samples, tracks[t].sampleId) # <<>>
            /\ tracks[t].startTime >= currentTime) =>
           \A i \in 0..(tracks[t].repetitions - 1) :
             /\ Cardinality(SourcesOf(audioSources', t, i)) = 1
             /\ \A k \in SourcesOf(audioSources', t, i) :
                  /\ audioSources'[k] \in started'
                  /\ EventOf(audioSources'[k]) =
                       [track |-> t, rep |-> i,
                        when |-> deviceTime
                                   + (RepStart(tracks[t], samples, i) - currentTime),
                        offset |-> 0,
                        rate |-> SemitonesToPlaybackRate(tracks[t].pitchSemitones),
                        gain |-> tracks[t].volume]]_vars

\* C25 witness: a 1 s sample three times from 2.5 s, played from 1.5 s once
\* the device clock has moved: the repetitions start 1, 2 and 3 s after W0.
C25_Witness ==
  /\ isPlaying
  /\ Len(tracks) = 1
  /\ IsTrack(tracks[1], samples, TicksPerSecond, 20, 3, 0)
  /\ startTimeRef > 0
  /\ \E iv \in intervals : iv.currentTime = 12
  /\ {<<s.rep, s.when - startTimeRef>> : s \in started}
       = {<<0, 8>>, <<1, 16>>, <<2, 24>>}

\* C26: every source a playComposition call starts or adds to the list of
\* active sources has a start time at or after W0, the device time the call
\* read.
C26_NoStartBeforeCall ==
  [][(~isPlaying /\ TogglePlay) =>
       /\ \A s \in started' \ started : s.when >= deviceTime
       /\ \A k \in 1..Len(audioSources') : audioSources'[k].when >= deviceTime]_vars

\* C26 witness: the cursor inside the second of three repetitions, played
\* once the device clock has moved: the straddled repetition starts at W0,
\* the last one after it.
C26_Witness ==
  /\ isPlaying
  /\ Len(tracks) = 1
  /\ IsTrack(tracks[1], samples, TicksPerSecond, 0, 3, 0)
  /\ startTimeRef > 0
  /\ \E iv \in intervals : iv.currentTime = 12
  /\ {<<s.rep, s.when - startTimeRef>> : s \in started} = {<<1, 0>>, <<2, 8>>}


\* The sources a playComposition call scheduled, among a set of sources.
CompositionSources(sources) == {s \in sources : s.track # 0}

\* C27: playSample while the composition plays leaves either the scheduled
\* sources running or composition playback fully stopped (poll cleared,
\* isPlaying false); it never stops the scheduled sources while the poll stays
\* registered with isPlaying true.
C27_PreviewLeavesPlaybackWhole ==
  [][(isPlaying /\ PlaySample) =>
       \/ CompositionSources(started) \subseteq started'
       \/ ~isPlaying' /\ intervals' = {} /\ timeUpdateInterval' = <<>>]_vars


\* The paths from a node to the master output along a set of connections
\* that has no cycle, as the set of node sequences.
RECURSIVE PathsFrom(_, _)
PathsFrom(wires, node) ==
  IF node = "gainNode" THEN {<<node>>}
  ELSE UNION {{<<node>> \o path : path \in PathsFrom(wires, w[2])} :
                w \in {v \in wires : v[1] = node}}

\* The connections that carry the unprocessed signal: those that touch
\* neither the delay line nor the convolver.
DryWires(wires) ==
  {w \in wires : {w[1], w[2]} \cap {"delayNode", "delayFeedbackGain", "reverbNode"} = {}}

\* The product of the gains along a path, as a fraction.
RECURSIVE GainProduct(_, _)
GainProduct(values, path) ==
  IF path = <<>> THEN Rat(1, 1)
  ELSE LET gains == {v[2] : v \in {u \in values : u[1] = Head(path)}}
       IN RatMul(IF gains = {} THEN Rat(1, 1)
                 ELSE Rat(CHOOSE g \in gains : TRUE, 100),
                 GainProduct(values, Tail(path)))

\* C28: the graph of every emitted source, whichever of delay and reverb are
\* active, delivers one combined signal to the master output: one connection
\* into the master, exactly one dry path from the source, with gain product
\* volume * 1.0 * (1 - reverbAmount with reverb, 1 without), no pair of nodes
\* connected twice, and the track gain on every path from the source to the
\* master exactly once.
C28_SingleCombinedSignal ==
  \A s \in started :
    LET wiring == s.graph.wiring
        wires == Range(wiring)
        dry == PathsFrom(DryWires(wires), "source")
        reverb == {v[2] : v \in {u \in s.graph.values : u[1] = "wetGain"}}
        withoutTrackGain ==
          [connections |-> {w \in wires : "trackGain" \notin {w[1], w[2]}}]
    IN /\ Len(wiring) = Cardinality(wires)
       /\ Cardinality({w \in wires : w[2] = "gainNode"}) = 1
       /\ Cardinality(dry) = 1
       /\ \A path \in dry :
            GainProduct(s.graph.values, path) =
              RatMul(Rat(s.gain, 100),
                     IF reverb = {} THEN Rat(1, 1)
                     ELSE Rat(100 - (CHOOSE r \in reverb : TRUE), 100))
       /\ "gainNode" \notin Downstream(withoutTrackGain, "source")
       /\ "gainNode" \in Downstream([connections |-> wires], "source")
       /\ "trackGain" \notin Downstream([connections |-> wires], "trackGain")

\* C28 witness: a source with delay and reverb both active has been started
\* next to one with neither.
C28_Witness ==
  /\ \E s \in started : DelayActive(s.graph) /\ ReverbActive(s.graph)
  /\ \E s \in started : ~DelayActive(s.graph) /\ ~ReverbActive(s.graph)


\* C29: no two samples of the library share an id and no two tracks share an
\* id, whenever the operations that created them ran, within the same
\* millisecond included.
C29_IdsUnique ==
  /\ \A i \in 1..Len(tracks), j \in 1..Len(tracks) :
       tracks[i].id = tracks[j].id => i = j
  /\ \A i \in 1..Len(samples), j \in 1..Len(samples) :
       samples[i].id = samples[j].id => i = j


\* C30: every track of every reachable state is within the ranges of the
\* data model (start time not negative, at least one repetition, volume,
\* reverb amount and delay time in [0, 1], pitch in [-12, 12], delay feedback
\* in [0, 0.9]), whichever path updated it: effects tab, edit-track dialog
\* with Save, dragging.
C30_TrackRanges ==
  \A k \in 1..Len(tracks) :
    /\ tracks[k].startTime >= 0
    /\ tracks[k].repetitions >= 1
    /\ tracks[k].volume \in 0..100
    /\ tracks[k].pitchSemitones \in (0 - 12)..12
    /\ tracks[k].reverbAmount \in 0..100
    /\ tracks[k].delayTime \in 0..100
    /\ tracks[k].delayFeedback \in 0..90

Resolved(trks, ss) ==
  SelectSeq(trks, LAMBDA track : \E i \in 1..Len(ss) : ss[i].id = track.sampleId)

Placed(sources, trks) ==
  [k \in 1..Len(sources) |->
     [sources[k] EXCEPT !.track = trks[sources[k].track].id]]

\* C31: a track whose sampleId matches no sample of the library is skipped:
\* a playComposition that starts from silence schedules exactly the sources
\* it would schedule were the unresolved tracks absent from the track list,
\* and an edit of the track list leaves the composition duration it would
\* leave were they absent; no step raises an error.
C31_UnresolvedTrackSkipped ==
  [][LET played == /\ audioSources = <<>>
                   /\ timeUpdateInterval' # timeUpdateInterval
                   /\ timeUpdateInterval' # <<>>
         resolved == Resolved(tracks, samples)
     IN /\ played
             => \E iv \in intervals' :
                  /\ iv.id = timeUpdateInterval'[1]
                  /\ isPlaying'
                  /\ Placed(audioSources', tracks)
                       = Placed(Schedule(iv.id, resolved, samples,
                                         iv.currentTime, iv.startTime),
                                resolved)
        /\ tracks' # tracks
             => compositionDuration'
                  = UpdateCompositionDuration(Resolved(tracks', samples'),
                                              samples')]_vars

\* Played with an unresolved track next to a resolved one: sources for the
\* resolved track only, and a duration that counts it alone.
C31_Witness ==
  /\ isPlaying
  /\ Len(tracks) = 2
  /\ Len(Resolved(tracks, samples)) = 1
  /\ audioSources # <<>>
  /\ \A k \in 1..Len(audioSources) :
       tracks[audioSources[k].track].sampleId = "s2"
  /\ compositionDuration = 2 * TicksPerSecond

\* C32: a running composition playback is a snapshot: a step that changes
\* the track list while the composition plays leaves the scheduled sources,
\* the poll interval and the playing flag as they are, and a poll tick stops
\* the playback exactly when the cursor captured at Play plus the elapsed
\* device time has reached the composition duration captured at Play.
C32_PlaybackIsASnapshot ==
  [][LET edited == isPlaying /\ tracks' # tracks
     IN /\ edited => UNCHANGED <<playbackVars, currentTime>>
        /\ PollTick
             => \A iv \in intervals :
                  isPlaying'
                    <=> iv.currentTime + (deviceTime - iv.startTime)
                          < iv.compositionDuration]_vars

\* The track list was shortened under a running playback, and a poll tick
\* has since published a time at or past the new composition duration.
C32_Witness ==
  /\ isPlaying
  /\ audioSources # <<>>
  /\ \E iv \in intervals :
       /\ deviceTime > iv.startTime
       /\ currentTime = iv.currentTime + (deviceTime - iv.startTime)
       /\ compositionDuration <= currentTime
       /\ currentTime < iv.compositionDuration

C34_ZoomWithinLimits ==
  /\ RatLeq(<<1, 1>>, waveform.zoomLevel)
  /\ RatLeq(waveform.zoomLevel, <<10, 1>>)
  /\ RatLeq(<<0, 1>>, waveform.zoomCenter)
  /\ RatLeq(waveform.zoomCenter, <<1, 1>>)

\* Zoomed in with the wheel to the upper limit, around a point off the
\* start of the file.
C34_Witness ==
  /\ waveform.zoomLevel = <<10, 1>>
  /\ waveform.zoomCenter # <<0, 1>>
  /\ waveform.zoomCenter # <<1, 2>>

\* C35: for every width of at least one pixel and every window, each index
\* of [startSample, endSample) that the first channel has lies in exactly one
\* column i, the one that scans [startSample + i*step, startSample +
\* (i+1)*step), and the minimum and maximum drawn for that column bound the
\* sample at that index.
C35_EverySampleInOneColumn ==
  fnCall.pc = "drawn"
    => LET call == fnCall.call
           scanned(i) ==
             {index \in 0..(Len(call.channelData) - 1) :
                /\ call.startSample + i * fnCall.step <= index
                /\ index < call.startSample + (i + 1) * fnCall.step}
       IN \A index \in call.startSample..(call.endSample - 1) :
            index < Len(call.channelData)
              => /\ Cardinality({i \in 0..(Len(fnCall.columns) - 1) :
                                   index \in scanned(i)}) = 1
                 /\ \A i \in 0..(Len(fnCall.columns) - 1) :
                      index \in scanned(i)
                        => /\ fnCall.columns[i + 1].minValue
                                <= call.channelData[index + 1]
                           /\ call.channelData[index + 1]
                                <= fnCall.columns[i + 1].maxValue

\* Three samples drawn over two columns from the second sample on: a column
\* of two samples with different values, and a value beyond 1.0.
C35_Witness ==
  /\ fnCall.pc = "drawn"
  /\ fnCall.call.site = "drawWaveform"
  /\ fnCall.call.startSample = 1
  /\ fnCall.step = 2
  /\ Len(fnCall.columns) = 2
  /\ fnCall.columns[1].minValue < fnCall.columns[1].maxValue
  /\ fnCall.columns[1].maxValue > SampleDen

\* C37: for a committed selection with 0 <= start <= end <= buffer.duration,
\* the frame the copy starts at plus the frames of the new buffer is at most
\* the frames the source has, and every frame of the new channel was copied
\* from the source, none left at 0 past its end.
C37_ExtractReadsExistingFrames ==
  fnCall.pc = "extracted"
    => /\ fnCall.startInChannel + fnCall.frameCount <= fnCall.call.length
       /\ Len(fnCall.channelData) = fnCall.frameCount
       /\ \A f \in 1..fnCall.frameCount :
            fnCall.channelData[f] = fnCall.startInChannel + f

\* A selection that ends at the end of the file and begins within a frame,
\* with products that are not whole: the copy ends at the last frame or one
\* before it.
C37_Witness ==
  /\ fnCall.pc = "extracted"
  /\ fnCall.call.end = fnCall.call.duration
  /\ fnCall.startInChannel > 0
  /\ fnCall.frameCount > 0
  /\ RatMul(fnCall.call.start, Rat(fnCall.call.sampleRate, 1))[2] # 1
  /\ fnCall.startInChannel + fnCall.frameCount = fnCall.call.length - 1

====
